---- MODULE Spec2Model ----
(***************************************************************************)
(* Model of the service layer of DungeonBuilderServerSide: LobbyService,   *)
(* DungeonService (ratings) and FriendshipService over DatabaseService.    *)
(* Every service method is one atomic action (calls are executed one at a  *)
(* time); the document store locates a record by (id, partition key).      *)
(***************************************************************************)
EXTENDS Integers, Sequences, FiniteSets, TLC

\* ---------------------------------------------------------------- bounds
MaxLobbies == 1        \* lobby documents created in one run
MaxInvites == 1        \* invite documents created in one run
MaxPlayersCap == 2     \* largest max_players a LobbyCreate carries
MaxDungeons == 1       \* dungeon documents created in one run
MaxFriendRows == 2     \* friendship documents created in one run
MaxGuilds == 2         \* guilds created in one run
MaxGuildDocs == 5      \* documents created in guilds_container in one run
MaxMembersCap == 2     \* largest max_members a GuildCreate carries
MaxUsers == 2          \* accounts created in one run

\* ------------------------------------------------------ program constants
InviteTTLHours == 24   \* timedelta(hours=24)
MinRating == 1
MaxRating == 5

None == "None"
Users == {"u1", "u2"}
NoSuchId == 0          \* an id no document carries
NoTime == 0 - 1        \* a timestamp field that is None
\* password of a LobbyCreate / password supplied to join_lobby; "" is the
\* empty string, which Python treats as false in `if lobby.password`
LobbyPasswords == {None, "", "x"}
JoinPasswords == {None, "x", "y"}
\* the instants at which calls are made, in hours: an invite created at 0
\* is pending at 0, at its expires_at (24) and past it (25)
Clock == {0, InviteTTLHours, InviteTTLHours + 1}

\* the users of the friendship graph: three unordered pairs
FriendUsers == {"u1", "u2", "u3"}
\* the users who rate: three, so that a mean can fall on thirds
Raters == {"u1", "u2", "u3"}
\* the ratings a caller may send: the valid ones and one beyond each end
RatingInputs == (MinRating - 1)..(MaxRating + 1)
\* the users who lead and join guilds
GuildUsers == {"u1", "u2", "u3"}
\* GuildCreate.max_members is any int: no validator bounds it from below
GuildSizes == 0..MaxMembersCap
\* UserCreate / UserLogin inputs; "username" is an account named like the
\* partition key update_last_login passes
Usernames == {"alice", "bob", "username"}
Emails == {"a@example.com", "b@example.com"}
UserPasswords == {"pw1", "pw2"}

VARIABLES
    lobbies_container,   \* DatabaseService.lobbies_container: lobbies AND invites
    dungeons_container,  \* DatabaseService.dungeons_container
    ratings_container,   \* DatabaseService.ratings_container
    friendships_container, \* DatabaseService.friendships_container
    rejected_pairs,      \* history: the pairs of users whose row has been rejected
    guilds_container,    \* DatabaseService.guilds_container: guilds AND membership rows
    users_container,     \* DatabaseService.users_container
    leaderboard_container, \* DatabaseService.leaderboard_container: player AND dungeon scores
    procs,               \* the requests in flight: position and local variables of each
    now,                 \* datetime.utcnow(), in hours
    joins_ok,            \* history: per lobby, join calls that returned True before any leave
    has_left,            \* history: per lobby, whether a leave_lobby returned True
    last                 \* the call just executed: operation and what it returned

vars == <<lobbies_container, dungeons_container, ratings_container,
          friendships_container, rejected_pairs, guilds_container,
          users_container, leaderboard_container, procs, now, joins_ok,
          has_left, last>>

lobby_vars == <<lobbies_container, now, joins_ok, has_left>>
rating_vars == <<dungeons_container, ratings_container>>
friend_vars == <<friendships_container, rejected_pairs>>
guild_vars == <<guilds_container>>
user_vars == <<users_container>>
board_vars == <<leaderboard_container>>
race_vars == <<procs>>

\* ------------------------------------------------------- DatabaseService
\* create_item: the new document gets a fresh uuid; ids are positions here.
create_item(c, item) == Append(c, item @@ [id |-> Len(c) + 1])

\* a container is the sequence of the documents ever created in it; a deleted
\* document leaves Deleted at its position, so that its id is never used again
Deleted == [deleted |-> TRUE]
Live(c) == {i \in DOMAIN c : "deleted" \notin DOMAIN c[i]}

\* get_item: container.read_item(item_id, partition_key); the set holds the
\* document read, and is empty where the code returns None
get_item(c, item_id, partition_key) ==
    {c[i] : i \in {j \in Live(c) : j = item_id /\ c[j].partitionKey = partition_key}}

\* update_item: [ok |-> FALSE] stands for `raise ValueError("Item not found")`
update_item(c, item_id, partition_key, updates) ==
    IF get_item(c, item_id, partition_key) = {}
    THEN [ok |-> FALSE, c |-> c]
    ELSE [ok |-> TRUE,
          c  |-> [c EXCEPT ![item_id] = updates @@ c[item_id]]]

\* delete_item: ok is the boolean returned (False on CosmosResourceNotFoundError)
delete_item(c, item_id, partition_key) ==
    IF get_item(c, item_id, partition_key) = {}
    THEN [ok |-> FALSE, c |-> c]
    ELSE [ok |-> TRUE, c |-> [c EXCEPT ![item_id] = Deleted]]

\* ---------------------------------------------------------- LobbyService
IsLobbyDoc(d) == "creator_id" \in DOMAIN d
IsInviteDoc(d) == "invitee_id" \in DOMAIN d

\* bool(lobby.password) in Python: None and "" are false
Truthy(p) == p # None /\ p # ""

Result(c, ret, wrote) == [c |-> c, ret |-> ret, wrote |-> wrote]

\* get_lobby_by_id: "absent" (None), "invalid" (Lobby(**doc) raises a pydantic
\* ValidationError: the document with that id is an invite), or "lobby"
get_lobby_by_id(c, lobby_id) ==
    IF lobby_id \notin Live(c) THEN "absent"
    ELSE IF ~IsLobbyDoc(c[lobby_id]) THEN "invalid"
    ELSE "lobby"

create_lobby(c, max_players, password, creator_id) ==
    Result(create_item(c, [creator_id |-> creator_id,
                           max_players |-> max_players,
                           current_players |-> 1,
                           password |-> password,
                           status |-> "waiting",
                           started_at |-> NoTime,
                           completed_at |-> NoTime,
                           partitionKey |-> creator_id]),
           "created", TRUE)

\* mutant: the capacity test lets a full lobby take one more player
join_lobby_overfill(c, lobby_id, user_id, password) ==
    LET found == get_lobby_by_id(c, lobby_id)
        lobby == c[lobby_id]
    IN  IF found = "absent" THEN Result(c, "False", FALSE)
        ELSE IF found = "invalid" THEN Result(c, "ValidationError", FALSE)
        ELSE IF lobby.status # "waiting" THEN Result(c, "False", FALSE)
        ELSE IF lobby.current_players > lobby.max_players THEN Result(c, "False", FALSE)
        ELSE IF Truthy(lobby.password) /\ lobby.password # password
             THEN Result(c, "False", FALSE)
        ELSE LET u == update_item(c, lobby_id, lobby.creator_id,
                        [current_players |-> lobby.current_players + 1])
             IN  IF u.ok THEN Result(u.c, "True", TRUE)
                 ELSE Result(c, "ValueError", FALSE)

\* mutant: the password is never compared
join_lobby_nogate(c, lobby_id, user_id, password) ==
    LET found == get_lobby_by_id(c, lobby_id)
        lobby == c[lobby_id]
    IN  IF found = "absent" THEN Result(c, "False", FALSE)
        ELSE IF found = "invalid" THEN Result(c, "ValidationError", FALSE)
        ELSE IF lobby.status # "waiting" THEN Result(c, "False", FALSE)
        ELSE IF lobby.current_players >= lobby.max_players THEN Result(c, "False", FALSE)
        ELSE LET u == update_item(c, lobby_id, lobby.creator_id,
                        [current_players |-> lobby.current_players + 1])
             IN  IF u.ok THEN Result(u.c, "True", TRUE)
                 ELSE Result(c, "ValueError", FALSE)

join_lobby(c, lobby_id, user_id, password) ==
    LET found == get_lobby_by_id(c, lobby_id)
        lobby == c[lobby_id]
    IN  IF found = "absent" THEN Result(c, "False", FALSE)
        ELSE IF found = "invalid" THEN Result(c, "ValidationError", FALSE)
        ELSE IF lobby.status # "waiting" THEN Result(c, "False", FALSE)
        ELSE IF lobby.current_players >= lobby.max_players THEN Result(c, "False", FALSE)
        ELSE IF Truthy(lobby.password) /\ lobby.password # password
             THEN Result(c, "False", FALSE)
        ELSE LET u == update_item(c, lobby_id, lobby.creator_id,
                        [current_players |-> lobby.current_players + 1])
             IN  IF u.ok THEN Result(u.c, "True", TRUE)
                 ELSE Result(c, "ValueError", FALSE)

leave_lobby(c, lobby_id, user_id) ==
    LET found == get_lobby_by_id(c, lobby_id)
        lobby == c[lobby_id]
        dec   == IF lobby.current_players - 1 > 0 THEN lobby.current_players - 1 ELSE 0
    IN  IF found = "absent" THEN Result(c, "False", FALSE)
        ELSE IF found = "invalid" THEN Result(c, "ValidationError", FALSE)
        ELSE IF lobby.status # "waiting" THEN Result(c, "False", FALSE)
        ELSE LET u == update_item(c, lobby_id, lobby.creator_id,
                        [current_players |-> dec])
             IN  IF u.ok THEN Result(u.c, "True", TRUE)
                 ELSE Result(c, "ValueError", FALSE)

\* mutant: the status is switched but started_at is not written
start_lobby_nostamp(c, lobby_id, creator_id, t) ==
    LET found == get_lobby_by_id(c, lobby_id)
        lobby == c[lobby_id]
    IN  IF found = "absent" THEN Result(c, "False", FALSE)
        ELSE IF found = "invalid" THEN Result(c, "ValidationError", FALSE)
        ELSE IF lobby.creator_id # creator_id THEN Result(c, "False", FALSE)
        ELSE IF lobby.status # "waiting" THEN Result(c, "False", FALSE)
        ELSE IF lobby.current_players < 1 THEN Result(c, "False", FALSE)
        ELSE LET u == update_item(c, lobby_id, creator_id, [status |-> "in_game"])
             IN  IF u.ok THEN Result(u.c, "True", TRUE)
                 ELSE Result(c, "ValueError", FALSE)

start_lobby(c, lobby_id, creator_id, t) ==
    LET found == get_lobby_by_id(c, lobby_id)
        lobby == c[lobby_id]
    IN  IF found = "absent" THEN Result(c, "False", FALSE)
        ELSE IF found = "invalid" THEN Result(c, "ValidationError", FALSE)
        ELSE IF lobby.creator_id # creator_id THEN Result(c, "False", FALSE)
        ELSE IF lobby.status # "waiting" THEN Result(c, "False", FALSE)
        ELSE IF lobby.current_players < 1 THEN Result(c, "False", FALSE)
        ELSE LET u == update_item(c, lobby_id, creator_id,
                        [status |-> "in_game", started_at |-> t])
             IN  IF u.ok THEN Result(u.c, "True", TRUE)
                 ELSE Result(c, "ValueError", FALSE)

complete_lobby(c, lobby_id, creator_id, t) ==
    LET found == get_lobby_by_id(c, lobby_id)
        lobby == c[lobby_id]
    IN  IF found = "absent" THEN Result(c, "False", FALSE)
        ELSE IF found = "invalid" THEN Result(c, "ValidationError", FALSE)
        ELSE IF lobby.creator_id # creator_id THEN Result(c, "False", FALSE)
        ELSE IF lobby.status # "in_game" THEN Result(c, "False", FALSE)
        ELSE LET u == update_item(c, lobby_id, creator_id,
                        [status |-> "completed", completed_at |-> t])
             IN  IF u.ok THEN Result(u.c, "True", TRUE)
                 ELSE Result(c, "ValueError", FALSE)

\* mutant: the status is not looked at before cancelling
cancel_lobby_anystatus(c, lobby_id, creator_id) ==
    LET found == get_lobby_by_id(c, lobby_id)
        lobby == c[lobby_id]
    IN  IF found = "absent" THEN Result(c, "False", FALSE)
        ELSE IF found = "invalid" THEN Result(c, "ValidationError", FALSE)
        ELSE IF lobby.creator_id # creator_id THEN Result(c, "False", FALSE)
        ELSE LET u == update_item(c, lobby_id, creator_id, [status |-> "cancelled"])
             IN  IF u.ok THEN Result(u.c, "True", TRUE)
                 ELSE Result(c, "ValueError", FALSE)

cancel_lobby(c, lobby_id, creator_id) ==
    LET found == get_lobby_by_id(c, lobby_id)
        lobby == c[lobby_id]
    IN  IF found = "absent" THEN Result(c, "False", FALSE)
        ELSE IF found = "invalid" THEN Result(c, "ValidationError", FALSE)
        ELSE IF lobby.creator_id # creator_id THEN Result(c, "False", FALSE)
        ELSE IF lobby.status \notin {"waiting", "in_game"} THEN Result(c, "False", FALSE)
        ELSE LET u == update_item(c, lobby_id, creator_id, [status |-> "cancelled"])
             IN  IF u.ok THEN Result(u.c, "True", TRUE)
                 ELSE Result(c, "ValueError", FALSE)

create_lobby_invite(c, lobby_id, inviter_id, invitee_id, t) ==
    LET found == get_lobby_by_id(c, lobby_id)
        lobby == c[lobby_id]
    IN  IF found = "absent" THEN Result(c, "ValueError", FALSE)
        ELSE IF found = "invalid" THEN Result(c, "ValidationError", FALSE)
        ELSE IF lobby.creator_id # inviter_id THEN Result(c, "ValueError", FALSE)
        ELSE IF lobby.status # "waiting" THEN Result(c, "ValueError", FALSE)
        ELSE IF lobby.current_players >= lobby.max_players
             THEN Result(c, "ValueError", FALSE)
        ELSE Result(create_item(c, [lobby_id |-> lobby_id,
                                    inviter_id |-> inviter_id,
                                    invitee_id |-> invitee_id,
                                    expires_at |-> t + InviteTTLHours,
                                    is_accepted |-> None,
                                    partitionKey |-> lobby_id]),
                    "created", TRUE)

\* get_lobby_invites: the ids of the invites the query returns for user_id
get_lobby_invites(c, user_id, t) ==
    {i \in Live(c) : /\ IsInviteDoc(c[i])
                      /\ c[i].invitee_id = user_id
                      /\ c[i].is_accepted = None
                      /\ c[i].expires_at > t}

\* the query of accept_/decline_lobby_invite: c.id = @inviteId AND c.invitee_id = @userId
InviteQuery(c, invite_id, user_id) ==
    {i \in Live(c) : i = invite_id /\ IsInviteDoc(c[i]) /\ c[i].invitee_id = user_id}

accept_lobby_invite(c, invite_id, user_id, t) ==
    IF InviteQuery(c, invite_id, user_id) = {} THEN Result(c, "False", FALSE)
    ELSE LET invite == c[invite_id]
         IN  IF invite.expires_at < t THEN Result(c, "False", FALSE)
             ELSE LET u == update_item(c, invite_id, invite.lobby_id,
                                       [is_accepted |-> "True"])
                  IN  IF ~u.ok THEN Result(c, "ValueError", FALSE)
                      ELSE LET j == join_lobby(u.c, invite.lobby_id, user_id, None)
                           IN  Result(j.c, j.ret, TRUE)

decline_lobby_invite(c, invite_id, user_id) ==
    IF InviteQuery(c, invite_id, user_id) = {} THEN Result(c, "False", FALSE)
    ELSE LET invite == c[invite_id]
             u == update_item(c, invite_id, invite.lobby_id, [is_accepted |-> "False"])
         IN  IF u.ok THEN Result(u.c, "True", TRUE)
             ELSE Result(c, "ValueError", FALSE)

\* ---------------------------------------------------- the lobby machine
LobbyIds(c) == {i \in Live(c) : IsLobbyDoc(c[i])}
InviteIds(c) == {i \in Live(c) : IsInviteDoc(c[i])}
\* the ids a caller may send: every stored id and one that is stored nowhere
AnyId == DOMAIN lobbies_container \cup {NoSuchId}

\* user ids are opaque and only compared for equality, so the first record of
\* a kind is created by "u1" without loss of generality
FirstOr(existing) == IF existing = {} THEN {"u1"} ELSE Users

Call(op, r) == [op |-> op, ret |-> r.ret]
NoCall(op) == [op |-> op, ret |-> None]

Init ==
    /\ lobbies_container = << >>
    /\ dungeons_container = << >>
    /\ ratings_container = << >>
    /\ friendships_container = << >>
    /\ rejected_pairs = {}
    /\ guilds_container = << >>
    /\ users_container = << >>
    /\ leaderboard_container = << >>
    /\ procs = [p \in {} |-> 0]
    /\ now = 0
    /\ joins_ok = << >>
    /\ has_left = << >>
    /\ last = NoCall("init")

CreateLobby ==
    /\ Cardinality(LobbyIds(lobbies_container)) < MaxLobbies
    /\ \E u \in FirstOr(LobbyIds(lobbies_container)), n \in 1..MaxPlayersCap,
          p \in LobbyPasswords :
         LET r == create_lobby(lobbies_container, n, p, u)
         IN  /\ lobbies_container' = r.c
             /\ joins_ok' = Append(joins_ok, 0)
             /\ has_left' = Append(has_left, FALSE)
             /\ last' = Call("create_lobby", r)
    /\ UNCHANGED now
    /\ UNCHANGED <<rating_vars, friend_vars, guild_vars, user_vars, board_vars, race_vars>>

JoinLobby ==
    /\ \E l \in AnyId, u \in Users, p \in JoinPasswords :
         LET r == join_lobby(lobbies_container, l, u, p)
         IN  /\ lobbies_container' = r.c
             /\ joins_ok' = IF r.ret = "True" /\ ~has_left[l]
                            THEN [joins_ok EXCEPT ![l] = @ + 1] ELSE joins_ok
             /\ last' = Call("join_lobby", r)
    /\ UNCHANGED <<now, has_left>>
    /\ UNCHANGED <<rating_vars, friend_vars, guild_vars, user_vars, board_vars, race_vars>>

LeaveLobby ==
    /\ \E l \in AnyId, u \in Users :
         LET r == leave_lobby(lobbies_container, l, u)
         IN  /\ lobbies_container' = r.c
             /\ has_left' = IF r.ret = "True"
                            THEN [has_left EXCEPT ![l] = TRUE] ELSE has_left
             /\ last' = Call("leave_lobby", r)
    /\ UNCHANGED <<now, joins_ok>>
    /\ UNCHANGED <<rating_vars, friend_vars, guild_vars, user_vars, board_vars, race_vars>>

StartLobby ==
    /\ \E l \in AnyId, u \in Users :
         LET r == start_lobby(lobbies_container, l, u, now)
         IN  /\ lobbies_container' = r.c
             /\ last' = Call("start_lobby", r)
    /\ UNCHANGED <<now, joins_ok, has_left>>
    /\ UNCHANGED <<rating_vars, friend_vars, guild_vars, user_vars, board_vars, race_vars>>

CompleteLobby ==
    /\ \E l \in AnyId, u \in Users :
         LET r == complete_lobby(lobbies_container, l, u, now)
         IN  /\ lobbies_container' = r.c
             /\ last' = Call("complete_lobby", r)
    /\ UNCHANGED <<now, joins_ok, has_left>>
    /\ UNCHANGED <<rating_vars, friend_vars, guild_vars, user_vars, board_vars, race_vars>>

CancelLobby ==
    /\ \E l \in AnyId, u \in Users :
         LET r == cancel_lobby(lobbies_container, l, u)
         IN  /\ lobbies_container' = r.c
             /\ last' = Call("cancel_lobby", r)
    /\ UNCHANGED <<now, joins_ok, has_left>>
    /\ UNCHANGED <<rating_vars, friend_vars, guild_vars, user_vars, board_vars, race_vars>>

CreateLobbyInvite ==
    /\ Cardinality(InviteIds(lobbies_container)) < MaxInvites
    /\ \E l \in AnyId, u \in Users, v \in Users :
         LET r == create_lobby_invite(lobbies_container, l, u, v, now)
         IN  /\ lobbies_container' = r.c
             /\ joins_ok' = IF r.ret = "created" THEN Append(joins_ok, 0) ELSE joins_ok
             /\ has_left' = IF r.ret = "created" THEN Append(has_left, FALSE) ELSE has_left
             /\ last' = Call("create_lobby_invite", r)
    /\ UNCHANGED now
    /\ UNCHANGED <<rating_vars, friend_vars, guild_vars, user_vars, board_vars, race_vars>>

AcceptLobbyInvite ==
    /\ \E i \in AnyId, u \in Users :
         LET r == accept_lobby_invite(lobbies_container, i, u, now)
             l == lobbies_container[i].lobby_id
         IN  /\ lobbies_container' = r.c
             /\ joins_ok' = IF r.ret = "True" /\ ~has_left[l]
                            THEN [joins_ok EXCEPT ![l] = @ + 1] ELSE joins_ok
             /\ last' = Call("accept_lobby_invite", r)
    /\ UNCHANGED <<now, has_left>>
    /\ UNCHANGED <<rating_vars, friend_vars, guild_vars, user_vars, board_vars, race_vars>>

DeclineLobbyInvite ==
    /\ \E i \in AnyId, u \in Users :
         LET r == decline_lobby_invite(lobbies_container, i, u)
         IN  /\ lobbies_container' = r.c
             /\ last' = Call("decline_lobby_invite", r)
    /\ UNCHANGED <<now, joins_ok, has_left>>
    /\ UNCHANGED <<rating_vars, friend_vars, guild_vars, user_vars, board_vars, race_vars>>

\* time passes between calls
Tick ==
    /\ \E t \in Clock : t > now /\ now' = t
    /\ last' = NoCall("tick")
    /\ UNCHANGED <<lobbies_container, joins_ok, has_left>>
    /\ UNCHANGED <<rating_vars, friend_vars, guild_vars, user_vars, board_vars, race_vars>>

Next ==
    \/ CreateLobby
    \/ JoinLobby
    \/ LeaveLobby
    \/ StartLobby
    \/ CompleteLobby
    \/ CancelLobby
    \/ CreateLobbyInvite
    \/ AcceptLobbyInvite
    \/ DeclineLobbyInvite
    \/ Tick

Spec == Init /\ [][Next]_vars

\* -------------------------------------------------------- DungeonService
IsDungeonDoc(d) == "average_rating" \in DOMAIN d

\* list[0] of a query result: the document stored first
First(ids) == CHOOSE i \in ids : \A j \in ids : i <= j

RECURSIVE SumRatings(_, _)
\* sum(r["rating"] for r in ratings)
SumRatings(rs, ids) ==
    IF ids = {} THEN 0
    ELSE LET i == First(ids) IN rs[i].rating + SumRatings(rs, ids \ {i})

\* mutant: the mean is cut to 2 decimals instead of rounded
Round2_truncated(total, n) == (100 * total) \div n

\* round(total / n, 2) in hundredths: the hundredth nearest to total / n.
\* total / n lies exactly between two hundredths only from n = 8 on
\* (17 / 8 = 2.125), and Python then rounds the binary fraction to the even one.
Round2(total, n) ==
    LET lo   == (100 * total) \div n
        rem2 == 2 * ((100 * total) % n)
    IN  IF rem2 < n THEN lo
        ELSE IF rem2 > n THEN lo + 1
        ELSE IF lo % 2 = 0 THEN lo ELSE lo + 1

\* average_rating is kept in hundredths (0.0 is 0, 3.0 is 300)
create_dungeon(ds, creator_id) ==
    create_item(ds, [creator_id |-> creator_id,
                     average_rating |-> 0,
                     total_ratings |-> 0,
                     play_count |-> 0,
                     partitionKey |-> creator_id])

\* get_dungeon_by_id: the ids the query returns ({} where the code returns None)
get_dungeon_by_id(ds, dungeon_id) == {i \in Live(ds) : i = dungeon_id}

\* delete_dungeon: ok is the boolean returned
delete_dungeon(ds, dungeon_id, creator_id) ==
    IF get_dungeon_by_id(ds, dungeon_id) = {} THEN [ok |-> FALSE, c |-> ds]
    ELSE IF ds[dungeon_id].creator_id # creator_id THEN [ok |-> FALSE, c |-> ds]
    ELSE delete_item(ds, dungeon_id, creator_id)

\* the rating rows of a dungeon: SELECT * FROM c WHERE c.dungeon_id = @dungeonId
RatingsOf(rs, dungeon_id) == {i \in Live(rs) : rs[i].dungeon_id = dungeon_id}

\* _update_dungeon_rating: the dungeons container after the recomputation
update_dungeon_rating(ds, rs, dungeon_id) ==
    LET ratings == RatingsOf(rs, dungeon_id)
        n       == Cardinality(ratings)
    IN  IF ratings = {} THEN ds
        ELSE IF get_dungeon_by_id(ds, dungeon_id) = {} THEN ds
        ELSE update_item(ds, dungeon_id, ds[dungeon_id].creator_id,
                         [average_rating |-> Round2(SumRatings(rs, ratings), n),
                          total_ratings |-> n]).c

\* mutant: every call inserts a row, the read-before-write is missing
rate_dungeon_insert(ds, rs, dungeon_id, user_id, rating) ==
    IF rating < MinRating \/ rating > MaxRating
    THEN [ds |-> ds, rs |-> rs, ret |-> "ValueError", accessed |-> FALSE,
          existing |-> FALSE]
    ELSE LET written == create_item(rs, [dungeon_id |-> dungeon_id,
                                         user_id |-> user_id,
                                         rating |-> rating,
                                         partitionKey |-> dungeon_id])
         IN  [ds |-> update_dungeon_rating(ds, written, dungeon_id),
              rs |-> written, ret |-> "ok", accessed |-> TRUE,
              existing |-> \E i \in Live(rs) :
                              rs[i].dungeon_id = dungeon_id /\ rs[i].user_id = user_id]

\* mutant: the range test is `rating < 0 or rating > 5`
rate_dungeon_zero(ds, rs, dungeon_id, user_id, rating) ==
    IF rating < MinRating - 1 \/ rating > MaxRating
    THEN [ds |-> ds, rs |-> rs, ret |-> "ValueError", accessed |-> FALSE,
          existing |-> FALSE]
    ELSE LET existing_ratings ==
                 {i \in Live(rs) : rs[i].dungeon_id = dungeon_id /\ rs[i].user_id = user_id}
             written ==
                 IF existing_ratings # {}
                 THEN update_item(rs, First(existing_ratings), dungeon_id,
                                  [rating |-> rating]).c
                 ELSE create_item(rs, [dungeon_id |-> dungeon_id,
                                       user_id |-> user_id,
                                       rating |-> rating,
                                       partitionKey |-> dungeon_id])
         IN  [ds |-> update_dungeon_rating(ds, written, dungeon_id),
              rs |-> written, ret |-> "ok", accessed |-> TRUE,
              existing |-> existing_ratings # {}]

\* rate_dungeon: ret is "ValueError" or "ok" (a DungeonRating is returned);
\* accessed tells whether the store was read or written, existing whether the
\* branch `if existing_ratings` was taken
rate_dungeon(ds, rs, dungeon_id, user_id, rating) ==
    IF rating < MinRating \/ rating > MaxRating
    THEN [ds |-> ds, rs |-> rs, ret |-> "ValueError", accessed |-> FALSE,
          existing |-> FALSE]
    ELSE LET existing_ratings ==
                 {i \in Live(rs) : rs[i].dungeon_id = dungeon_id /\ rs[i].user_id = user_id}
             written ==
                 IF existing_ratings # {}
                 THEN update_item(rs, First(existing_ratings), dungeon_id,
                                  [rating |-> rating]).c
                 ELSE create_item(rs, [dungeon_id |-> dungeon_id,
                                       user_id |-> user_id,
                                       rating |-> rating,
                                       partitionKey |-> dungeon_id])
         IN  [ds |-> update_dungeon_rating(ds, written, dungeon_id),
              rs |-> written, ret |-> "ok", accessed |-> TRUE,
              existing |-> existing_ratings # {}]

\* --------------------------------------------------- the rating machine
\* the dungeon ids a caller may send: those of the dungeons ever created; a
\* deleted dungeon is the case of an id that resolves to no dungeon
AnyDungeonId == DOMAIN dungeons_container

RateCall(d, u, x, r) ==
    [op |-> "rate_dungeon", dungeon |-> d, user |-> u, rating |-> x,
     ret |-> r.ret, accessed |-> r.accessed, existing |-> r.existing]

CreateDungeon ==
    /\ Len(dungeons_container) < MaxDungeons
    /\ \E u \in FirstOr(DOMAIN dungeons_container) :
         dungeons_container' = create_dungeon(dungeons_container, u)
    /\ last' = [op |-> "create_dungeon", ret |-> "created"]
    /\ UNCHANGED <<ratings_container, lobby_vars, friend_vars, guild_vars, user_vars, board_vars, race_vars>>

DeleteDungeon ==
    /\ \E d \in AnyDungeonId, u \in Users :
         LET r == delete_dungeon(dungeons_container, d, u)
         IN  /\ dungeons_container' = r.c
             /\ last' = [op |-> "delete_dungeon", ret |-> IF r.ok THEN "True" ELSE "False"]
    /\ UNCHANGED <<ratings_container, lobby_vars, friend_vars, guild_vars, user_vars, board_vars, race_vars>>

RateDungeon ==
    /\ \E d \in AnyDungeonId, u \in Raters, x \in RatingInputs :
         LET r == rate_dungeon(dungeons_container, ratings_container, d, u, x)
         IN  /\ dungeons_container' = r.ds
             /\ ratings_container' = r.rs
             /\ last' = RateCall(d, u, x, r)
    /\ UNCHANGED <<lobby_vars, friend_vars, guild_vars, user_vars, board_vars, race_vars>>

NextRating ==
    \/ CreateDungeon
    \/ DeleteDungeon
    \/ RateDungeon

SpecRating == Init /\ [][NextRating]_vars

\* ----------------------------------------------------- FriendshipService
\* mutant: only the direction requester = user1, addressee = user2 is probed
get_friendship_oneway(c, user1_id, user2_id) ==
    LET fwd == {i \in Live(c) : c[i].requester_id = user1_id /\ c[i].addressee_id = user2_id}
    IN  IF fwd # {} THEN {First(fwd)} ELSE {}

\* _get_friendship: the id of the row found ({} where the code returns None);
\* the direction user1 -> user2 is queried first, then user2 -> user1
get_friendship(c, user1_id, user2_id) ==
    LET fwd == {i \in Live(c) : c[i].requester_id = user1_id /\ c[i].addressee_id = user2_id}
        rev == {i \in Live(c) : c[i].requester_id = user2_id /\ c[i].addressee_id = user1_id}
    IN  IF fwd # {} THEN {First(fwd)}
        ELSE IF rev # {} THEN {First(rev)}
        ELSE {}

FResult(c, ret) == [c |-> c, ret |-> ret]

send_friend_request(c, requester_id, addressee_id) ==
    IF requester_id = addressee_id THEN FResult(c, "ValueError")
    ELSE IF get_friendship(c, requester_id, addressee_id) # {} THEN FResult(c, "ValueError")
    ELSE FResult(create_item(c, [requester_id |-> requester_id,
                                 addressee_id |-> addressee_id,
                                 status |-> "pending",
                                 partitionKey |-> requester_id]),
                 "created")

\* accept_/reject_friend_request write the same way, only the status differs
AnswerRequest(c, addressee_id, requester_id, status) ==
    LET friendship == get_friendship(c, requester_id, addressee_id)
    IN  IF friendship = {} THEN FResult(c, "False")
        ELSE IF c[First(friendship)].status # "pending" THEN FResult(c, "False")
        ELSE LET u == update_item(c, First(friendship), requester_id, [status |-> status])
             IN  IF u.ok THEN FResult(u.c, "True") ELSE FResult(c, "ValueError")

accept_friend_request(c, addressee_id, requester_id) ==
    AnswerRequest(c, addressee_id, requester_id, "accepted")

reject_friend_request(c, addressee_id, requester_id) ==
    AnswerRequest(c, addressee_id, requester_id, "rejected")

block_user(c, blocker_id, blocked_id) ==
    IF blocker_id = blocked_id THEN FResult(c, "ValueError")
    ELSE LET existing_friendship == get_friendship(c, blocker_id, blocked_id)
         IN  IF existing_friendship # {}
             THEN LET u == update_item(c, First(existing_friendship), blocker_id,
                                       [status |-> "blocked"])
                  IN  IF u.ok THEN FResult(u.c, "updated") ELSE FResult(c, "ValueError")
             ELSE FResult(create_item(c, [requester_id |-> blocker_id,
                                          addressee_id |-> blocked_id,
                                          status |-> "blocked",
                                          partitionKey |-> blocker_id]),
                          "created")

\* mutant: the row found is deleted whatever its status
unblock_user_anystatus(c, blocker_id, blocked_id) ==
    LET friendship == get_friendship(c, blocker_id, blocked_id)
    IN  IF friendship = {} THEN FResult(c, "False")
        ELSE LET d == delete_item(c, First(friendship), blocker_id)
             IN  FResult(d.c, IF d.ok THEN "True" ELSE "False")

\* unblock_user / remove_friend delete the row found when it has the status
DeleteWithStatus(c, user_id, other_id, status) ==
    LET friendship == get_friendship(c, user_id, other_id)
    IN  IF friendship = {} THEN FResult(c, "False")
        ELSE IF c[First(friendship)].status # status THEN FResult(c, "False")
        ELSE LET d == delete_item(c, First(friendship), user_id)
             IN  FResult(d.c, IF d.ok THEN "True" ELSE "False")

unblock_user(c, blocker_id, blocked_id) ==
    DeleteWithStatus(c, blocker_id, blocked_id, "blocked")

remove_friend(c, user_id, friend_id) ==
    DeleteWithStatus(c, user_id, friend_id, "accepted")

\* query_items: the documents with the ids given, in the order of their ids
RECURSIVE QueryRows(_, _)
QueryRows(c, ids) ==
    IF ids = {} THEN << >>
    ELSE <<c[First(ids)]>> \o QueryRows(c, ids \ {First(ids)})

\* the other user of each row, as the loop of get_friends picks it
RECURSIVE FriendIds(_, _)
FriendIds(friendships, user_id) ==
    IF friendships = << >> THEN << >>
    ELSE <<IF Head(friendships).requester_id = user_id
           THEN Head(friendships).addressee_id
           ELSE Head(friendships).requester_id>>
         \o FriendIds(Tail(friendships), user_id)

\* mutant: only the rows the user requested are read
get_friends_requested(c, user_id) ==
    FriendIds(QueryRows(c, {i \in Live(c) : c[i].requester_id = user_id
                                            /\ c[i].status = "accepted"}),
              user_id)

\* get_friends: accepted rows where the user is requester, extended by the
\* accepted rows where the user is addressee
get_friends(c, user_id) ==
    FriendIds(QueryRows(c, {i \in Live(c) : c[i].requester_id = user_id
                                            /\ c[i].status = "accepted"})
              \o QueryRows(c, {i \in Live(c) : c[i].addressee_id = user_id
                                               /\ c[i].status = "accepted"}),
              user_id)

are_friends(c, user_id, friend_id) ==
    LET friendship == get_friendship(c, user_id, friend_id)
    IN  friendship # {} /\ c[First(friendship)].status = "accepted"

is_blocked(c, user_id, blocked_id) ==
    LET friendship == get_friendship(c, user_id, blocked_id)
    IN  friendship # {} /\ c[First(friendship)].status = "blocked"

\* ------------------------------------------------ the friendship machine
FriendCall(op, a, b, r) == [op |-> op, a |-> a, b |-> b, ret |-> r.ret]

\* one step of the machine: the call's result is stored; a call that would
\* create a document is made only while fewer than MaxFriendRows exist
FriendStep(op, a, b, r) ==
    /\ Len(r.c) <= MaxFriendRows
    /\ friendships_container' = r.c
    /\ rejected_pairs' = IF op = "reject_friend_request" /\ r.ret = "True"
                         THEN rejected_pairs \cup {{a, b}}
                         ELSE rejected_pairs
    /\ last' = FriendCall(op, a, b, r)
    /\ UNCHANGED <<lobby_vars, rating_vars, guild_vars, user_vars, board_vars, race_vars>>

SendFriendRequest ==
    \E a \in FriendUsers, b \in FriendUsers :
        FriendStep("send_friend_request", a, b,
                   send_friend_request(friendships_container, a, b))

AcceptFriendRequest ==
    \E a \in FriendUsers, b \in FriendUsers :
        FriendStep("accept_friend_request", a, b,
                   accept_friend_request(friendships_container, a, b))

RejectFriendRequest ==
    \E a \in FriendUsers, b \in FriendUsers :
        FriendStep("reject_friend_request", a, b,
                   reject_friend_request(friendships_container, a, b))

BlockUser ==
    \E a \in FriendUsers, b \in FriendUsers :
        FriendStep("block_user", a, b, block_user(friendships_container, a, b))

UnblockUser ==
    \E a \in FriendUsers, b \in FriendUsers :
        FriendStep("unblock_user", a, b, unblock_user(friendships_container, a, b))

RemoveFriend ==
    \E a \in FriendUsers, b \in FriendUsers :
        FriendStep("remove_friend", a, b, remove_friend(friendships_container, a, b))

NextFriend ==
    \/ SendFriendRequest
    \/ AcceptFriendRequest
    \/ RejectFriendRequest
    \/ BlockUser
    \/ UnblockUser
    \/ RemoveFriend

SpecFriend == Init /\ [][NextFriend]_vars

\* ----------------------------------------------------------- GuildService
\* guilds_container holds two kinds of documents: guilds (with a leader_id)
\* and membership rows (with a guild_id and a user_id)
IsGuildDoc(d) == "leader_id" \in DOMAIN d
IsMemberDoc(d) == "guild_id" \in DOMAIN d

GResult(c, ret) == [c |-> c, ret |-> ret]

\* create_guild: the guild document, then the leader's membership row
create_guild(c, max_members, leader_id) ==
    LET created_guild == create_item(c, [name |-> "guild",
                                         leader_id |-> leader_id,
                                         max_members |-> max_members,
                                         current_members |-> 1,
                                         total_score |-> 0,
                                         partitionKey |-> leader_id])
    IN  GResult(create_item(created_guild, [guild_id |-> Len(created_guild),
                                            user_id |-> leader_id,
                                            role |-> "leader",
                                            partitionKey |-> Len(created_guild)]),
                "created")

\* get_guild_by_id: c.id = @guildId AND c.leader_id IS NOT NULL
get_guild_by_id(c, guild_id) ==
    {i \in Live(c) : i = guild_id /\ IsGuildDoc(c[i])}

\* the query of add_member_to_guild / remove_member_from_guild:
\* c.guild_id = @guildId AND c.user_id = @userId
MemberQuery(c, guild_id, user_id) ==
    {i \in Live(c) : /\ IsMemberDoc(c[i])
                     /\ c[i].guild_id = guild_id
                     /\ c[i].user_id = user_id}

\* get_guild_members: c.guild_id = @guildId AND c.user_id IS NOT NULL
get_guild_members(c, guild_id) ==
    {i \in Live(c) : IsMemberDoc(c[i]) /\ c[i].guild_id = guild_id}

\* mutant: the membership row is inserted, the counter is not written
add_member_to_guild_nocount(c, guild_id, user_id) ==
    IF get_guild_by_id(c, guild_id) = {} THEN GResult(c, "False")
    ELSE IF c[guild_id].current_members >= c[guild_id].max_members
    THEN GResult(c, "False")
    ELSE IF MemberQuery(c, guild_id, user_id) # {} THEN GResult(c, "False")
    ELSE GResult(create_item(c, [guild_id |-> guild_id, user_id |-> user_id,
                                 role |-> "member", partitionKey |-> guild_id]),
                 "True")

\* mutant: the capacity of the guild is not looked at
add_member_to_guild_nocap(c, guild_id, user_id) ==
    IF get_guild_by_id(c, guild_id) = {} THEN GResult(c, "False")
    ELSE IF MemberQuery(c, guild_id, user_id) # {} THEN GResult(c, "False")
    ELSE LET added == create_item(c, [guild_id |-> guild_id, user_id |-> user_id,
                                      role |-> "member", partitionKey |-> guild_id])
             u == update_item(added, guild_id, c[guild_id].leader_id,
                              [current_members |-> c[guild_id].current_members + 1])
         IN  IF u.ok THEN GResult(u.c, "True") ELSE GResult(added, "ValueError")

\* add_member_to_guild with the default role; when update_item raises, the
\* membership row is already written
add_member_to_guild(c, guild_id, user_id) ==
    IF get_guild_by_id(c, guild_id) = {} THEN GResult(c, "False")
    ELSE IF c[guild_id].current_members >= c[guild_id].max_members
    THEN GResult(c, "False")
    ELSE IF MemberQuery(c, guild_id, user_id) # {} THEN GResult(c, "False")
    ELSE LET added == create_item(c, [guild_id |-> guild_id, user_id |-> user_id,
                                      role |-> "member", partitionKey |-> guild_id])
             u == update_item(added, guild_id, c[guild_id].leader_id,
                              [current_members |-> c[guild_id].current_members + 1])
         IN  IF u.ok THEN GResult(u.c, "True") ELSE GResult(added, "ValueError")

\* mutant: the caller is not compared with the guild's leader_id
remove_member_from_guild_anyone(c, guild_id, user_id, leader_id) ==
    IF get_guild_by_id(c, guild_id) = {} THEN GResult(c, "False")
    ELSE IF MemberQuery(c, guild_id, user_id) = {} THEN GResult(c, "False")
    ELSE LET d == delete_item(c, First(MemberQuery(c, guild_id, user_id)), guild_id)
             u == update_item(d.c, guild_id, c[guild_id].leader_id,
                              [current_members |-> c[guild_id].current_members - 1])
         IN  IF u.ok THEN GResult(u.c, "True") ELSE GResult(d.c, "ValueError")

\* remove_member_from_guild: members[0] is deleted under partition key
\* guild_id, then the counter is written under partition key leader_id
remove_member_from_guild(c, guild_id, user_id, leader_id) ==
    IF get_guild_by_id(c, guild_id) = {} THEN GResult(c, "False")
    ELSE IF c[guild_id].leader_id # leader_id THEN GResult(c, "False")
    ELSE IF MemberQuery(c, guild_id, user_id) = {} THEN GResult(c, "False")
    ELSE LET d == delete_item(c, First(MemberQuery(c, guild_id, user_id)), guild_id)
             u == update_item(d.c, guild_id, leader_id,
                              [current_members |-> c[guild_id].current_members - 1])
         IN  IF u.ok THEN GResult(u.c, "True") ELSE GResult(d.c, "ValueError")

\* update_guild: ret is None for a missing guild or a caller who is not the
\* leader, "updated" for the Guild returned
update_guild(c, guild_id, leader_id, updates) ==
    IF get_guild_by_id(c, guild_id) = {} THEN GResult(c, None)
    ELSE IF c[guild_id].leader_id # leader_id THEN GResult(c, None)
    ELSE LET u == update_item(c, guild_id, leader_id, updates)
         IN  IF u.ok THEN GResult(u.c, "updated") ELSE GResult(c, "ValueError")

\* ----------------------------------------------------- the guild machine
\* the ids a caller may send: every id of the container (guilds, membership
\* rows, deleted rows) and one that is stored nowhere
AnyGuildId == DOMAIN guilds_container \cup {NoSuchId}
GuildIds(c) == {i \in Live(c) : IsGuildDoc(c[i])}
\* request bodies of PUT /guilds/{id}, which update_guild passes to update_item
GuildUpdates == {[name |-> "renamed"], [current_members |-> 0], [leader_id |-> "u2"]}

GuildCall(op, g, u, by, r) == [op |-> op, guild |-> g, user |-> u, by |-> by, ret |-> r.ret]

GuildStep(op, g, u, by, r) ==
    /\ Len(r.c) <= MaxGuildDocs
    /\ guilds_container' = r.c
    /\ last' = GuildCall(op, g, u, by, r)
    /\ UNCHANGED <<lobby_vars, rating_vars, friend_vars, user_vars, board_vars, race_vars>>

CreateGuild ==
    /\ Cardinality(GuildIds(guilds_container)) < MaxGuilds
    /\ \E leader \in (IF guilds_container = << >> THEN {"u1"} ELSE GuildUsers),
          size \in GuildSizes :
          GuildStep("create_guild", Len(guilds_container) + 1, leader, leader,
                    create_guild(guilds_container, size, leader))

AddMemberToGuild ==
    \E g \in AnyGuildId, u \in GuildUsers :
        GuildStep("add_member_to_guild", g, u, u,
                  add_member_to_guild(guilds_container, g, u))

RemoveMemberFromGuild ==
    \E g \in AnyGuildId, u \in GuildUsers, by \in GuildUsers :
        GuildStep("remove_member_from_guild", g, u, by,
                  remove_member_from_guild(guilds_container, g, u, by))

NextGuild ==
    \/ CreateGuild
    \/ AddMemberToGuild
    \/ RemoveMemberFromGuild

SpecGuild == Init /\ [][NextGuild]_vars

\* ------------------------------------------------ AuthService, UserService
\* get_password_hash / verify_password: a hash verifies the password it was
\* made from and no other
get_password_hash(password) == [scheme |-> "bcrypt", of |-> password]
verify_password(plain_password, hashed_password) ==
    hashed_password = get_password_hash(plain_password)

UResult(c, ret) == [c |-> c, ret |-> ret]

\* mutant: only the username is looked up before the insert
create_user_nomailcheck(c, username, email, password) ==
    IF {i \in Live(c) : c[i].username = username} # {} THEN UResult(c, "ValueError")
    ELSE UResult(create_item(c, [username |-> username,
                                 email |-> email,
                                 hashed_password |-> get_password_hash(password),
                                 display_name |-> username,
                                 partitionKey |-> username]),
                 "created")

create_user(c, username, email, password) ==
    IF {i \in Live(c) : c[i].username = username} # {} THEN UResult(c, "ValueError")
    ELSE IF {i \in Live(c) : c[i].email = email} # {} THEN UResult(c, "ValueError")
    ELSE UResult(create_item(c, [username |-> username,
                                 email |-> email,
                                 hashed_password |-> get_password_hash(password),
                                 display_name |-> username,
                                 partitionKey |-> username]),
                 "created")

\* authenticate_user: the id of the account returned, {} where it returns None
authenticate_user(c, username, password) ==
    LET users == {i \in Live(c) : c[i].username = username}
    IN  IF users = {} THEN {}
        ELSE IF ~verify_password(password, c[First(users)].hashed_password) THEN {}
        ELSE {First(users)}

\* the partition key update_last_login passes to update_item
PartitionKeyPlaceholder == "username"

\* update_last_login: the ValueError of update_item is caught, False returned
update_last_login(c, user_id, t) ==
    LET u == update_item(c, user_id, PartitionKeyPlaceholder, [last_login |-> t])
    IN  IF u.ok THEN UResult(u.c, "True") ELSE UResult(c, "False")

\* User.last_login: None until the document carries the field
LastLogin(d) == IF "last_login" \in DOMAIN d THEN d.last_login ELSE NoTime

\* _login_impl: 401 for invalid credentials, else update_last_login, whose
\* return value is not looked at, and 200
login(c, username, password, t) ==
    LET user == authenticate_user(c, username, password)
    IN  IF user = {} THEN [c |-> c, status |-> 401]
        ELSE [c |-> update_last_login(c, First(user), t).c, status |-> 200]

\* ------------------------------------------------------ the user machine
CreateUser ==
    \E username \in Usernames, email \in Emails, password \in UserPasswords :
        LET r == create_user(users_container, username, email, password)
        IN  /\ Len(r.c) <= MaxUsers
            /\ users_container' = r.c
            /\ last' = [op |-> "create_user", username |-> username,
                        email |-> email, ret |-> r.ret]
            /\ UNCHANGED <<lobby_vars, rating_vars, friend_vars, guild_vars, board_vars, race_vars>>

Login ==
    \E username \in Usernames, password \in UserPasswords :
        LET r == login(users_container, username, password, now)
        IN  /\ users_container' = r.c
            /\ last' = [op |-> "login", username |-> username, status |-> r.status]
            /\ UNCHANGED <<lobby_vars, rating_vars, friend_vars, guild_vars, board_vars, race_vars>>

NextUser ==
    \/ CreateUser
    \/ Login
    \/ Tick

SpecUser == Init /\ [][NextUser]_vars

\* ------------------------------------------------------- the HTTP layer
\* a JWT: sub is the username it was issued for, valid whether verify_token
\* decodes it (signature and expiry)
Token(username) == [sub |-> username, valid |-> TRUE]
BadToken == [sub |-> None, valid |-> FALSE]
\* the Authorization header of a request
NoHeader == [scheme |-> None]
BasicHeader == [scheme |-> "Basic"]
Bearer(token) == [scheme |-> "Bearer", token |-> token]

\* AuthService.get_current_user: the id of the account the token resolves
\* to, {} where it returns None
AuthService_get_current_user(users, token) ==
    IF ~token.valid THEN {}
    ELSE IF token.sub = None THEN {}
    ELSE LET found == {i \in Live(users) : users[i].username = token.sub}
         IN  IF found = {} THEN {} ELSE {First(found)}

\* get_current_user(req), the helper every endpoint module repeats
get_current_user(users, header) ==
    IF header.scheme # "Bearer" THEN {}
    ELSE AuthService_get_current_user(users, header.token)

\* func.HttpResponse: status code, the error or message of the body, and the
\* container(s) as the request leaves them
Response(status, body, c) == [status |-> status, body |-> body, c |-> c]
Unauthorized(c) == Response(401, "Unauthorized", c)
InternalServerError(c) == Response(500, "Internal server error", c)

\* ---------------------------------------------- DungeonService, continued
\* update_dungeon: ret is None for a missing dungeon or a caller who is not
\* its creator; updates go to update_item as they are
update_dungeon(ds, dungeon_id, creator_id, updates) ==
    IF get_dungeon_by_id(ds, dungeon_id) = {} THEN [c |-> ds, ret |-> None]
    ELSE IF ds[dungeon_id].creator_id # creator_id THEN [c |-> ds, ret |-> None]
    ELSE LET u == update_item(ds, dungeon_id, creator_id, updates)
         IN  IF u.ok THEN [c |-> u.c, ret |-> "updated"]
             ELSE [c |-> ds, ret |-> "ValueError"]

\* increment_play_count: nothing happens for a missing dungeon
increment_play_count(ds, dungeon_id) ==
    IF get_dungeon_by_id(ds, dungeon_id) = {} THEN [c |-> ds, ret |-> None]
    ELSE LET u == update_item(ds, dungeon_id, ds[dungeon_id].creator_id,
                              [play_count |-> ds[dungeon_id].play_count + 1])
         IN  IF u.ok THEN [c |-> u.c, ret |-> None]
             ELSE [c |-> ds, ret |-> "ValueError"]

\* ------------------------------------------------ dungeons/__init__.py
_create_dungeon_impl(users, ds, header) ==
    LET user == get_current_user(users, header)
    IN  IF user = {} THEN Unauthorized(ds)
        ELSE Response(201, "dungeon", create_dungeon(ds, First(user)))

_update_dungeon_impl(users, ds, header, dungeon_id, req_body) ==
    LET user == get_current_user(users, header)
    IN  IF user = {} THEN Unauthorized(ds)
        ELSE LET r == update_dungeon(ds, dungeon_id, First(user), req_body)
             IN  IF r.ret = "ValueError" THEN InternalServerError(r.c)
                 ELSE IF r.ret = None
                 THEN Response(404, "Dungeon not found or unauthorized", r.c)
                 ELSE Response(200, "dungeon", r.c)

_delete_dungeon_impl(users, ds, header, dungeon_id) ==
    LET user == get_current_user(users, header)
    IN  IF user = {} THEN Unauthorized(ds)
        ELSE LET r == delete_dungeon(ds, dungeon_id, First(user))
             IN  IF ~r.ok THEN Response(404, "Dungeon not found or unauthorized", r.c)
                 ELSE Response(200, "Dungeon deleted successfully", r.c)

\* the container pair of the rating endpoint is <<dungeons, ratings>>
_rate_dungeon_impl(users, ds, rs, header, dungeon_id, rating) ==
    LET user == get_current_user(users, header)
    IN  IF user = {} THEN Unauthorized(<<ds, rs>>)
        ELSE IF rating < 1 \/ rating > 5
        THEN Response(400, "Rating must be an integer between 1 and 5", <<ds, rs>>)
        ELSE LET r == rate_dungeon(ds, rs, dungeon_id, First(user), rating)
             IN  IF r.ret = "ValueError" THEN Response(400, "ValueError", <<r.ds, r.rs>>)
                 ELSE Response(200, "rating", <<r.ds, r.rs>>)

\* _play_dungeon_impl never looks at the Authorization header
_play_dungeon_impl(users, ds, header, dungeon_id) ==
    LET r == increment_play_count(ds, dungeon_id)
    IN  IF r.ret = "ValueError" THEN InternalServerError(r.c)
        ELSE Response(200, "Play count incremented", r.c)

\* --------------------------------------- what the endpoints have in common
\* "if not success: 400 ...; 200 ..." under "except Exception: 500"
BoolResponse(r, failure, success) ==
    IF r.ret = "True" THEN Response(200, success, r.c)
    ELSE IF r.ret = "False" THEN Response(400, failure, r.c)
    ELSE InternalServerError(r.c)

\* the handlers that return the record made, under "except ValueError: 400"
\* (pydantic's ValidationError is a ValueError)
RecordResponse(r, status, body) ==
    IF r.ret \in {"ValueError", "ValidationError"} THEN Response(400, r.ret, r.c)
    ELSE Response(status, body, r.c)

\* ------------------------------------------------- lobbies/__init__.py
_create_lobby_impl(users, c, header, max_players, password) ==
    LET user == get_current_user(users, header)
        id == First(user)
    IN  IF user = {} THEN Unauthorized(c)
        ELSE (RecordResponse(create_lobby(c, max_players, password, id),
                                   201, "lobby"))

_join_lobby_impl(users, c, header, lobby_id, password) ==
    LET user == get_current_user(users, header)
        id == First(user)
    IN  IF user = {} THEN Unauthorized(c)
        ELSE (BoolResponse(join_lobby(c, lobby_id, id, password),
                                 "Failed to join lobby", "Successfully joined lobby"))

_leave_lobby_impl(users, c, header, lobby_id) ==
    LET user == get_current_user(users, header)
        id == First(user)
    IN  IF user = {} THEN Unauthorized(c)
        ELSE (BoolResponse(leave_lobby(c, lobby_id, id),
                                 "Failed to leave lobby", "Successfully left lobby"))

\* mutant: a caller who is not the creator is told so
_start_lobby_impl_forbidden(users, c, header, lobby_id, t) ==
    LET user == get_current_user(users, header)
        id == First(user)
    IN  IF user = {} THEN Unauthorized(c)
        ELSE (IF /\ get_lobby_by_id(c, lobby_id) = "lobby"
                       /\ c[lobby_id].creator_id # id
                    THEN Response(403, "Only the creator can start the lobby", c)
                    ELSE BoolResponse(start_lobby(c, lobby_id, id, t),
                                      "Failed to start lobby",
                                      "Lobby started successfully"))

_start_lobby_impl(users, c, header, lobby_id, t) ==
    LET user == get_current_user(users, header)
        id == First(user)
    IN  IF user = {} THEN Unauthorized(c)
        ELSE (BoolResponse(start_lobby(c, lobby_id, id, t),
                                 "Failed to start lobby", "Lobby started successfully"))

_complete_lobby_impl(users, c, header, lobby_id, t) ==
    LET user == get_current_user(users, header)
        id == First(user)
    IN  IF user = {} THEN Unauthorized(c)
        ELSE (BoolResponse(complete_lobby(c, lobby_id, id, t),
                                 "Failed to complete lobby",
                                 "Lobby completed successfully"))

_cancel_lobby_impl(users, c, header, lobby_id) ==
    LET user == get_current_user(users, header)
        id == First(user)
    IN  IF user = {} THEN Unauthorized(c)
        ELSE (BoolResponse(cancel_lobby(c, lobby_id, id),
                                 "Failed to cancel lobby",
                                 "Lobby cancelled successfully"))

\* invitee_id = req_body.get("user_id")
_invite_to_lobby_impl(users, c, header, lobby_id, req_body, t) ==
    LET user == get_current_user(users, header)
        id == First(user)
    IN  IF user = {} THEN Unauthorized(c)
        ELSE (IF "user_id" \notin DOMAIN req_body
                    THEN Response(400, "user_id is required", c)
                    ELSE RecordResponse(create_lobby_invite(c, lobby_id, id,
                                                            req_body.user_id, t),
                                        200, "invite"))

_accept_lobby_invite_impl(users, c, header, invite_id, t) ==
    LET user == get_current_user(users, header)
        id == First(user)
    IN  IF user = {} THEN Unauthorized(c)
        ELSE (BoolResponse(accept_lobby_invite(c, invite_id, id, t),
                                 "Failed to accept invite",
                                 "Invite accepted successfully"))

_decline_lobby_invite_impl(users, c, header, invite_id) ==
    LET user == get_current_user(users, header)
        id == First(user)
    IN  IF user = {} THEN Unauthorized(c)
        ELSE (BoolResponse(decline_lobby_invite(c, invite_id, id),
                                 "Failed to decline invite",
                                 "Invite declined successfully"))

\* -------------------------------------------------- guilds/__init__.py
_create_guild_impl(users, c, header, max_members) ==
    LET user == get_current_user(users, header)
        id == First(user)
    IN  IF user = {} THEN Unauthorized(c)
        ELSE (RecordResponse(create_guild(c, max_members, id), 201, "guild"))

\* member_id = req_body.get("user_id")
_add_guild_member_impl(users, c, header, guild_id, req_body) ==
    LET user == get_current_user(users, header)
        id == First(user)
    IN  IF user = {} THEN Unauthorized(c)
        ELSE (IF "user_id" \notin DOMAIN req_body
                    THEN Response(400, "user_id is required", c)
                    ELSE BoolResponse(add_member_to_guild(c, guild_id,
                                                          req_body.user_id),
                                      "Failed to add member to guild",
                                      "Member added successfully"))

_remove_guild_member_impl(users, c, header, guild_id, member_id) ==
    LET user == get_current_user(users, header)
        id == First(user)
    IN  IF user = {} THEN Unauthorized(c)
        ELSE (BoolResponse(remove_member_from_guild(c, guild_id, member_id, id),
                                 "Failed to remove member from guild",
                                 "Member removed successfully"))

_update_guild_impl(users, c, header, guild_id, req_body) ==
    LET user == get_current_user(users, header)
        id == First(user)
    IN  IF user = {} THEN Unauthorized(c)
        ELSE (LET r == update_guild(c, guild_id, id, req_body)
                    IN  IF r.ret = "ValueError" THEN InternalServerError(r.c)
                        ELSE IF r.ret = None
                        THEN Response(404, "Guild not found or unauthorized", r.c)
                        ELSE Response(200, "guild", r.c))

\* ------------------------------------------------- friends/__init__.py
_send_friend_request_impl(users, c, header, addressee_id) ==
    LET user == get_current_user(users, header)
        id == First(user)
    IN  IF user = {} THEN Unauthorized(c)
        ELSE (RecordResponse(send_friend_request(c, id, addressee_id),
                                   201, "friendship"))

_accept_friend_request_impl(users, c, header, requester_id) ==
    LET user == get_current_user(users, header)
        id == First(user)
    IN  IF user = {} THEN Unauthorized(c)
        ELSE (BoolResponse(accept_friend_request(c, id, requester_id),
                                 "Failed to accept friend request",
                                 "Friend request accepted successfully"))

_reject_friend_request_impl(users, c, header, requester_id) ==
    LET user == get_current_user(users, header)
        id == First(user)
    IN  IF user = {} THEN Unauthorized(c)
        ELSE (BoolResponse(reject_friend_request(c, id, requester_id),
                                 "Failed to reject friend request",
                                 "Friend request rejected successfully"))

_remove_friend_impl(users, c, header, friend_id) ==
    LET user == get_current_user(users, header)
        id == First(user)
    IN  IF user = {} THEN Unauthorized(c)
        ELSE (BoolResponse(remove_friend(c, id, friend_id),
                                 "Failed to remove friend",
                                 "Friend removed successfully"))

_block_user_impl(users, c, header, user_id_to_block) ==
    LET user == get_current_user(users, header)
        id == First(user)
    IN  IF user = {} THEN Unauthorized(c)
        ELSE (RecordResponse(block_user(c, id, user_id_to_block),
                                   200, "friendship"))

_unblock_user_impl(users, c, header, user_id_to_unblock) ==
    LET user == get_current_user(users, header)
        id == First(user)
    IN  IF user = {} THEN Unauthorized(c)
        ELSE (BoolResponse(unblock_user(c, id, user_id_to_unblock),
                                 "Failed to unblock user",
                                 "User unblocked successfully"))

\* ---------------------------------------------------- LeaderboardService
\* leaderboard_container holds player score rows (partition "player_scores")
\* and dungeon score rows (partition "dungeon_scores"); of the figures a row
\* carries only total_score is kept
IsPlayerScore(d) == d # Deleted /\ "username" \in DOMAIN d /\ "user_id" \in DOMAIN d
IsDungeonScore(d) == d # Deleted /\ "dungeon_name" \in DOMAIN d /\ "dungeon_id" \in DOMAIN d

\* update_player_score: the row of user_id is updated, or made when there is
\* none; ret is None, or "ValueError" where update_item raises
update_player_score(c, user_id, username, score) ==
    LET existing_scores == {i \in Live(c) : IsPlayerScore(c[i]) /\ c[i].user_id = user_id}
    IN  IF existing_scores # {}
        THEN LET u == update_item(c, First(existing_scores), "player_scores",
                                  [total_score |-> score])
             IN  IF u.ok THEN [c |-> u.c, ret |-> None]
                 ELSE [c |-> c, ret |-> "ValueError"]
        ELSE [c |-> create_item(c, [user_id |-> user_id,
                                    username |-> username,
                                    total_score |-> score,
                                    partitionKey |-> "player_scores"]),
              ret |-> None]

update_dungeon_score(c, dungeon_id, dungeon_name, score) ==
    LET existing_scores == {i \in Live(c) : IsDungeonScore(c[i]) /\ c[i].dungeon_id = dungeon_id}
    IN  IF existing_scores # {}
        THEN LET u == update_item(c, First(existing_scores), "dungeon_scores",
                                  [total_score |-> score])
             IN  IF u.ok THEN [c |-> u.c, ret |-> None]
                 ELSE [c |-> c, ret |-> "ValueError"]
        ELSE [c |-> create_item(c, [dungeon_id |-> dungeon_id,
                                    dungeon_name |-> dungeon_name,
                                    total_score |-> score,
                                    partitionKey |-> "dungeon_scores"]),
              ret |-> None]

\* the query of get_player_rank, SELECT VALUE COUNT(1) + 1 ... WHERE
\* c.total_score > (SELECT VALUE c2.total_score ... c2.user_id = @userId):
\* an aggregate answers with one value whatever the rows; a row passes the
\* filter when the subquery has a value and the row's score is above it
PlayerRankQuery(c, user_id) ==
    LET theirs == {c[i].total_score :
                     i \in {j \in Live(c) : /\ "user_id" \in DOMAIN c[j]
                                            /\ c[j].user_id = user_id}}
        above == {i \in Live(c) : /\ IsPlayerScore(c[i])
                                  /\ \E s \in theirs : c[i].total_score > s}
    IN  <<Cardinality(above) + 1>>

\* get_player_rank: "if result: return result[0]; return None"
get_player_rank(c, user_id) ==
    LET result == PlayerRankQuery(c, user_id)
    IN  IF result # << >> THEN {result[1]} ELSE {}

\* ----------------------------------------------- leaderboard/__init__.py
\* GET leaderboard/players/rank/{user_id}: 404 where the rank is None
_get_player_rank_impl(c, user_id) ==
    LET rank == get_player_rank(c, user_id)
    IN  IF rank = {} THEN [status |-> 404, body |-> "Player not found in leaderboard"]
        ELSE [status |-> 200, body |-> "rank", rank |-> First(rank)]

\* user_id and username are None where the body lacks them; the caller's
\* account is used for nothing but the 401
_update_player_score_impl(users, c, header, user_id, username, score) ==
    LET user == get_current_user(users, header)
        id == First(user)
    IN  IF user = {} THEN Unauthorized(c)
        ELSE (IF user_id = None \/ username = None
                    THEN Response(400, "user_id and username are required", c)
                    ELSE LET r == update_player_score(c, user_id, username, score)
                         IN  IF r.ret = "ValueError" THEN InternalServerError(r.c)
                             ELSE Response(200, "Player score updated successfully",
                                           r.c))

_update_dungeon_score_impl(users, c, header, dungeon_id, dungeon_name, score) ==
    LET user == get_current_user(users, header)
        id == First(user)
    IN  IF user = {} THEN Unauthorized(c)
        ELSE (IF dungeon_id = None \/ dungeon_name = None
                    THEN Response(400, "dungeon_id, dungeon_name, and creator_username are required", c)
                    ELSE LET r == update_dungeon_score(c, dungeon_id, dungeon_name, score)
                         IN  IF r.ret = "ValueError" THEN InternalServerError(r.c)
                             ELSE Response(200, "Dungeon score updated successfully",
                                           r.c))

\* --------------------------------------------------- users/__init__.py
\* UserService.update_user_profile: ret is None for an account that is not there
update_user_profile(users, user_id, updates) ==
    IF user_id \notin Live(users) THEN [c |-> users, ret |-> None]
    ELSE LET u == update_item(users, user_id, users[user_id].username, updates)
         IN  IF u.ok THEN [c |-> u.c, ret |-> "updated"]
             ELSE [c |-> users, ret |-> "ValueError"]

\* PUT users/profile: of the body only display_name and avatar_url are kept
_update_profile_impl(users, header, req_body) ==
    LET user == get_current_user(users, header)
        id == First(user)
    IN  IF user = {} THEN Unauthorized(users)
        ELSE (LET allowed_updates == {"display_name", "avatar_url"}
                updates == [k \in DOMAIN req_body \cap allowed_updates |-> req_body[k]]
            IN  IF DOMAIN updates = {}
                THEN Response(400, "No valid fields to update", users)
                ELSE LET r == update_user_profile(users, id, updates)
                     IN  IF r.ret = "ValueError" THEN InternalServerError(r.c)
                         ELSE IF r.ret = None
                         THEN Response(400, "Failed to update profile", r.c)
                         ELSE Response(200, "user", r.c))

\* ------------------------------------------------- the machine of requests
\* accounts register, then requests arrive with any Authorization header; an
\* account's id is its position in users_container
MaxPlays == 1
HttpUsernames == {"alice", "bob"}
EmailOf(username) == IF username = "alice" THEN "a@example.com" ELSE "b@example.com"
\* no header, another scheme, a token that does not verify, and a token that
\* verifies for each username (of an account or of none)
Headers ==
    {NoHeader, BasicHeader, Bearer(BadToken)} \cup {Bearer(Token(n)) : n \in HttpUsernames}
\* the account a header stands for, NoSuchId where it stands for none
Caller(header) ==
    LET user == get_current_user(users_container, header)
    IN  IF user = {} THEN NoSuchId ELSE First(user)
AccountIds == 1..MaxUsers
\* usernames are opaque, so the first account is alice's without loss of
\* generality
FirstName(users) == IF users = << >> THEN {"alice"} ELSE HttpUsernames
\* request bodies of PUT /dungeons/{id} and PUT /guilds/{id}: what a client of
\* the game sends, and the bodies any client may send
Rename == [name |-> "renamed"]
DungeonBodies ==
    {[name |-> "renamed"], [creator_id |-> 2],
     [average_rating |-> 5, total_ratings |-> 1, play_count |-> MaxPlays]}
GuildBodies ==
    {[name |-> "renamed"], [leader_id |-> 2], [current_members |-> 0, total_score |-> 9]}

Register ==
    /\ Len(users_container) < MaxUsers
    /\ \E username \in FirstName(users_container) :
         LET r == create_user(users_container, username, EmailOf(username), "pw1")
         IN  /\ users_container' = r.c
             /\ last' = [op |-> "register", caller |-> NoSuchId, target |-> NoSuchId,
                         status |-> IF r.ret = "ValueError" THEN 400 ELSE 201]
    /\ UNCHANGED <<dungeons_container, ratings_container, lobbies_container,
                   guilds_container, now, joins_ok, has_left>>
    /\ UNCHANGED <<friend_vars, board_vars, race_vars>>

DungeonRequest(op, target, response) ==
    /\ dungeons_container' = response.c
    /\ last' = [op |-> op, caller |-> target[1], target |-> target[2],
                status |-> response.status]
    /\ UNCHANGED <<users_container, ratings_container, lobbies_container,
                   guilds_container, now, joins_ok, has_left>>
    /\ UNCHANGED <<friend_vars, board_vars, race_vars>>

HttpCreateDungeon ==
    /\ Len(dungeons_container) < MaxDungeons
    /\ \E header \in Headers :
         DungeonRequest("create_dungeon", <<Caller(header), NoSuchId>>,
                        _create_dungeon_impl(users_container, dungeons_container,
                                             header))

HttpUpdateDungeon ==
    \E header \in Headers, dungeon_id \in DOMAIN dungeons_container \cup {NoSuchId},
       req_body \in {Rename} :
         DungeonRequest("update_dungeon", <<Caller(header), dungeon_id>>,
                        _update_dungeon_impl(users_container, dungeons_container,
                                             header, dungeon_id, req_body))

HttpDeleteDungeon ==
    \E header \in Headers, dungeon_id \in DOMAIN dungeons_container \cup {NoSuchId} :
         DungeonRequest("delete_dungeon", <<Caller(header), dungeon_id>>,
                        _delete_dungeon_impl(users_container, dungeons_container,
                                             header, dungeon_id))

HttpPlayDungeon ==
    \E header \in Headers, dungeon_id \in DOMAIN dungeons_container \cup {NoSuchId} :
         /\ \A i \in Live(dungeons_container) :
                dungeons_container[i].play_count < MaxPlays
         /\ DungeonRequest("play_dungeon", <<Caller(header), dungeon_id>>,
                           _play_dungeon_impl(users_container, dungeons_container,
                                              header, dungeon_id))

LobbyRequest(op, target, response) ==
    /\ lobbies_container' = response.c
    /\ last' = [op |-> op, caller |-> target[1], target |-> target[2],
                status |-> response.status]
    /\ UNCHANGED <<users_container, ratings_container, dungeons_container,
                   guilds_container, now, joins_ok, has_left>>
    /\ UNCHANGED <<friend_vars, board_vars, race_vars>>

HttpCreateLobby ==
    /\ Len(lobbies_container) < MaxLobbies
    /\ \E header \in Headers :
         LobbyRequest("create_lobby", <<Caller(header), NoSuchId>>,
                      _create_lobby_impl(users_container, lobbies_container, header,
                                         MaxPlayersCap, None))

HttpStartLobby ==
    \E header \in Headers, lobby_id \in AnyId :
         LobbyRequest("start_lobby", <<Caller(header), lobby_id>>,
                      _start_lobby_impl(users_container, lobbies_container, header,
                                        lobby_id, now))

HttpCompleteLobby ==
    \E header \in Headers, lobby_id \in AnyId :
         LobbyRequest("complete_lobby", <<Caller(header), lobby_id>>,
                      _complete_lobby_impl(users_container, lobbies_container, header,
                                           lobby_id, now))

HttpCancelLobby ==
    \E header \in Headers, lobby_id \in AnyId :
         LobbyRequest("cancel_lobby", <<Caller(header), lobby_id>>,
                      _cancel_lobby_impl(users_container, lobbies_container, header,
                                         lobby_id))

GuildRequest(op, target, response) ==
    /\ guilds_container' = response.c
    /\ last' = [op |-> op, caller |-> target[1], target |-> target[2],
                status |-> response.status]
    /\ UNCHANGED <<users_container, ratings_container, dungeons_container,
                   lobbies_container, now, joins_ok, has_left>>
    /\ UNCHANGED <<friend_vars, board_vars, race_vars>>

HttpCreateGuild ==
    /\ Len(guilds_container) = 0
    /\ \E header \in Headers :
         GuildRequest("create_guild", <<Caller(header), NoSuchId>>,
                      _create_guild_impl(users_container, guilds_container, header,
                                         MaxMembersCap))

HttpRemoveGuildMember ==
    \E header \in Headers, guild_id \in AnyGuildId, member_id \in AccountIds :
         GuildRequest("remove_guild_member", <<Caller(header), guild_id>>,
                      _remove_guild_member_impl(users_container, guilds_container,
                                                header, guild_id, member_id))

HttpUpdateGuild ==
    \E header \in Headers, guild_id \in AnyGuildId, req_body \in {Rename} :
         GuildRequest("update_guild", <<Caller(header), guild_id>>,
                      _update_guild_impl(users_container, guilds_container, header,
                                         guild_id, req_body))

NextHttp ==
    \/ Register
    \/ HttpCreateDungeon
    \/ HttpUpdateDungeon
    \/ HttpDeleteDungeon
    \/ HttpPlayDungeon
    \/ HttpCreateLobby
    \/ HttpStartLobby
    \/ HttpCompleteLobby
    \/ HttpCancelLobby
    \/ HttpCreateGuild
    \/ HttpRemoveGuildMember
    \/ HttpUpdateGuild

SpecHttp == Init /\ [][NextHttp]_vars

\* --------------------------------------------- the leaderboard machine
\* accounts register and post scores; ranks are read without a header
MaxScoreRows == 4
ScoreUsers == {"u1", "u2", "u3"}
Scores == {100, 200, 300}
DungeonNames == {"d1"}
\* User.role: the stored role, PLAYER where the document has none
RoleOf(user) == IF "role" \in DOMAIN user THEN user.role ELSE "player"

BoardRequest(op, header, target, response) ==
    /\ Len(response.c) <= MaxScoreRows
    /\ leaderboard_container' = response.c
    /\ last' = [op |-> op, caller |-> Caller(header), target |-> target,
                status |-> response.status]
    /\ UNCHANGED <<lobby_vars, rating_vars, friend_vars, guild_vars, user_vars,
                   race_vars>>

HttpUpdatePlayerScore ==
    /\ \E header \in Headers, user_id \in ScoreUsers \cup {None}, score \in Scores :
         BoardRequest("update_player_score", header, user_id,
                      _update_player_score_impl(users_container, leaderboard_container,
                                                header, user_id, "name", score))

HttpUpdateDungeonScore ==
    /\ \E header \in Headers, dungeon_id \in DungeonNames, score \in {100} :
         BoardRequest("update_dungeon_score", header, dungeon_id,
                      _update_dungeon_score_impl(users_container,
                                                 leaderboard_container, header,
                                                 dungeon_id, "crypt", score))

HttpGetPlayerRank ==
    /\ \E user_id \in ScoreUsers :
         LET response == _get_player_rank_impl(leaderboard_container, user_id)
         IN  last' = [op |-> "get_player_rank", caller |-> NoSuchId,
                      target |-> user_id, status |-> response.status]
    /\ UNCHANGED <<lobby_vars, rating_vars, friend_vars, guild_vars, user_vars,
                   board_vars, race_vars>>

NextLeaderboard ==
    \/ Register
    \/ HttpUpdatePlayerScore
    \/ HttpUpdateDungeonScore
    \/ HttpGetPlayerRank

SpecLeaderboard == Init /\ [][NextLeaderboard]_vars

\* ------------------------------------------- requests on a lobby in flight
\* Each request is served by its own worker. A service method is three store
\* operations, each atomic: the query of get_lobby_by_id, on whose result the
\* method decides, then inside update_item the read of the whole document
\* (get_item) and the replacement of the whole document (replace_item).
MaxProcs == 3
\* the creator of the lobby and two other players
RaceUsers == {"u1", "u2", "u3"}
LobbyOps == {"join_lobby", "leave_lobby", "start_lobby", "complete_lobby", "cancel_lobby"}

\* what the method returns if it returns before update_item, "True" if it goes
\* on to update_item: the decision of the method on the container as queried
Decision(op, c, lobby_id, user_id, t) ==
    CASE op = "join_lobby" -> join_lobby(c, lobby_id, user_id, None).ret
      [] op = "leave_lobby" -> leave_lobby(c, lobby_id, user_id).ret
      [] op = "start_lobby" -> start_lobby(c, lobby_id, user_id, t).ret
      [] op = "complete_lobby" -> complete_lobby(c, lobby_id, user_id, t).ret
      [] op = "cancel_lobby" -> cancel_lobby(c, lobby_id, user_id).ret

\* the updates dictionary the method hands to update_item, computed from the
\* lobby as queried
Updates(op, lobby, t) ==
    CASE op = "join_lobby" -> [current_players |-> lobby.current_players + 1]
      [] op = "leave_lobby" ->
           [current_players |-> IF lobby.current_players - 1 > 0
                                THEN lobby.current_players - 1 ELSE 0]
      [] op = "start_lobby" -> [status |-> "in_game", started_at |-> t]
      [] op = "complete_lobby" -> [status |-> "completed", completed_at |-> t]
      [] op = "cancel_lobby" -> [status |-> "cancelled"]

\* the partition key the method hands to update_item
PartitionKey(op, lobby, user_id) ==
    IF op \in {"join_lobby", "leave_lobby"} THEN lobby.creator_id ELSE user_id

Returned(p) == p \in DOMAIN procs /\ procs[p].pc = "done"

RaceStep ==
    UNCHANGED <<now, joins_ok, has_left, last, rating_vars, friend_vars, guild_vars,
                user_vars, board_vars>>

\* the lobby every request of the race is aimed at
RaceCreateLobby ==
    /\ lobbies_container = << >>
    /\ lobbies_container' = create_lobby(lobbies_container, MaxPlayersCap, None, "u1").c
    /\ UNCHANGED procs
    /\ RaceStep

\* a request arrives and the method runs up to update_item
RaceQuery ==
    /\ Cardinality(DOMAIN procs) < MaxProcs
    /\ \E op \in LobbyOps, user_id \in RaceUsers,
          lobby_id \in LobbyIds(lobbies_container) :
         LET p == Cardinality(DOMAIN procs) + 1
             ret == Decision(op, lobbies_container, lobby_id, user_id, now)
             request == [op |-> op, user_id |-> user_id, lobby_id |-> lobby_id,
                         lobby |-> lobbies_container[lobby_id],
                         item |-> lobbies_container[lobby_id]]
         IN  procs' = [q \in DOMAIN procs \cup {p} |->
                         IF q # p THEN procs[q]
                         ELSE IF ret = "True"
                              THEN request @@ [pc |-> "get_item", ret |-> None]
                              ELSE request @@ [pc |-> "done", ret |-> ret]]
    /\ UNCHANGED lobbies_container
    /\ RaceStep

\* update_item: item = self.get_item(container, item_id, partition_key)
RaceGetItem ==
    /\ \E p \in DOMAIN procs :
         /\ procs[p].pc = "get_item"
         /\ LET r == procs[p]
                found == get_item(lobbies_container, r.lobby_id,
                                  PartitionKey(r.op, r.lobby, r.user_id))
            IN  procs' = [procs EXCEPT ![p] =
                            IF found = {}
                            THEN [r EXCEPT !.pc = "done", !.ret = "ValueError"]
                            ELSE [r EXCEPT !.pc = "replace_item",
                                           !.item = lobbies_container[r.lobby_id]]]
    /\ UNCHANGED lobbies_container
    /\ RaceStep

\* update_item: item.update(updates); container.replace_item(item_id, item)
RaceReplaceItem ==
    /\ \E p \in DOMAIN procs :
         /\ procs[p].pc = "replace_item"
         /\ LET r == procs[p]
            IN  /\ lobbies_container' =
                     [lobbies_container EXCEPT ![r.lobby_id] =
                         Updates(r.op, r.lobby, now) @@ r.item]
                /\ procs' = [procs EXCEPT ![p] = [r EXCEPT !.pc = "done", !.ret = "True"]]
    /\ RaceStep

NextLobbyRace ==
    \/ RaceCreateLobby
    \/ RaceQuery
    \/ RaceGetItem
    \/ RaceReplaceItem

SpecLobbyRace == Init /\ [][NextLobbyRace]_vars

\* ---------------------------------------- ratings of a dungeon in flight
\* rate_dungeon is a sequence of store operations, each atomic: the query for
\* the caller's rating row, the write of the row, then in
\* _update_dungeon_rating the query for the rows of the dungeon, the query of
\* get_dungeon_by_id, and inside update_item the read of the dungeon document
\* and its replacement
RaceRatings == {1, 5}

RatingStep ==
    UNCHANGED <<last, lobby_vars, friend_vars, guild_vars, user_vars, board_vars>>

\* the dungeon all the ratings are for
RaceCreateDungeon ==
    /\ dungeons_container = << >>
    /\ dungeons_container' = create_dungeon(dungeons_container, "u1")
    /\ UNCHANGED <<ratings_container, procs>>
    /\ RatingStep

\* a call by a user who has no call yet: the rating is in range, and the
\* query for the user's row is made
RateQueryExisting ==
    /\ Cardinality(DOMAIN procs) < MaxProcs
    /\ \E dungeon_id \in Live(dungeons_container), rating \in RaceRatings,
          user_id \in Raters \ {procs[q].user_id : q \in DOMAIN procs} :
         LET p == Cardinality(DOMAIN procs) + 1
             call == [pc |-> "write_row", dungeon_id |-> dungeon_id,
                      user_id |-> user_id, rating |-> rating,
                      existing_ratings |->
                          {i \in Live(ratings_container) :
                              /\ ratings_container[i].dungeon_id = dungeon_id
                              /\ ratings_container[i].user_id = user_id},
                      total_rating |-> 0, len_ratings |-> 0,
                      item |-> dungeons_container[dungeon_id]]
         IN  procs' = [q \in DOMAIN procs \cup {p} |->
                         IF q = p THEN call ELSE procs[q]]
    /\ UNCHANGED <<dungeons_container, ratings_container>>
    /\ RatingStep

\* update_item of the row found, or create_item of a new row
RateWriteRow ==
    /\ \E p \in DOMAIN procs :
         /\ procs[p].pc = "write_row"
         /\ LET r == procs[p]
            IN  /\ ratings_container' =
                     IF r.existing_ratings # {}
                     THEN update_item(ratings_container, First(r.existing_ratings),
                                      r.dungeon_id, [rating |-> r.rating]).c
                     ELSE create_item(ratings_container,
                                      [dungeon_id |-> r.dungeon_id,
                                       user_id |-> r.user_id,
                                       rating |-> r.rating,
                                       partitionKey |-> r.dungeon_id])
                /\ procs' = [procs EXCEPT ![p] = [r EXCEPT !.pc = "query_ratings"]]
    /\ UNCHANGED dungeons_container
    /\ RatingStep

\* _update_dungeon_rating: the rows of the dungeon, their sum and number
RateQueryRatings ==
    /\ \E p \in DOMAIN procs :
         /\ procs[p].pc = "query_ratings"
         /\ LET r == procs[p]
                ratings == RatingsOf(ratings_container, r.dungeon_id)
            IN  procs' = [procs EXCEPT ![p] =
                            IF ratings = {} THEN [r EXCEPT !.pc = "done"]
                            ELSE [r EXCEPT !.pc = "get_dungeon_by_id",
                                           !.total_rating =
                                               SumRatings(ratings_container, ratings),
                                           !.len_ratings = Cardinality(ratings)]]
    /\ UNCHANGED <<dungeons_container, ratings_container>>
    /\ RatingStep

\* dungeon = self.get_dungeon_by_id(dungeon_id); if dungeon: ...
RateGetDungeon ==
    /\ \E p \in DOMAIN procs :
         /\ procs[p].pc = "get_dungeon_by_id"
         /\ LET r == procs[p]
            IN  procs' = [procs EXCEPT ![p] =
                            IF get_dungeon_by_id(dungeons_container, r.dungeon_id) = {}
                            THEN [r EXCEPT !.pc = "done"]
                            ELSE [r EXCEPT !.pc = "get_item",
                                           !.item = dungeons_container[r.dungeon_id]]]
    /\ UNCHANGED <<dungeons_container, ratings_container>>
    /\ RatingStep

\* update_item: item = self.get_item(container, item_id, partition_key), with
\* the creator_id of the dungeon as queried for partition key
RateGetItem ==
    /\ \E p \in DOMAIN procs :
         /\ procs[p].pc = "get_item"
         /\ LET r == procs[p]
                found == get_item(dungeons_container, r.dungeon_id, r.item.creator_id)
            IN  procs' = [procs EXCEPT ![p] =
                            IF found = {} THEN [r EXCEPT !.pc = "done"]
                            ELSE [r EXCEPT !.pc = "replace_item",
                                           !.item = dungeons_container[r.dungeon_id]]]
    /\ UNCHANGED <<dungeons_container, ratings_container>>
    /\ RatingStep

\* update_item: item.update(updates); container.replace_item(item_id, item)
RateReplaceItem ==
    /\ \E p \in DOMAIN procs :
         /\ procs[p].pc = "replace_item"
         /\ LET r == procs[p]
            IN  /\ dungeons_container' =
                     [dungeons_container EXCEPT ![r.dungeon_id] =
                         [average_rating |-> Round2(r.total_rating, r.len_ratings),
                          total_ratings |-> r.len_ratings] @@ r.item]
                /\ procs' = [procs EXCEPT ![p] = [r EXCEPT !.pc = "done"]]
    /\ UNCHANGED ratings_container
    /\ RatingStep

NextRatingRace ==
    \/ RaceCreateDungeon
    \/ RateQueryExisting
    \/ RateWriteRow
    \/ RateQueryRatings
    \/ RateGetDungeon
    \/ RateGetItem
    \/ RateReplaceItem

SpecRatingRace == Init /\ [][NextRatingRace]_vars

\* ------------------------------------------------------------ the claims
Lobbies == LobbyIds(lobbies_container)
Invites == InviteIds(lobbies_container)
Lobby(l) == lobbies_container[l]

\* C1: a lobby's status changes only waiting -> in_game by start_lobby,
\* in_game -> completed by complete_lobby and waiting|in_game -> cancelled by
\* cancel_lobby; completed and cancelled never change, and no other call
\* changes a status.
AllowedStatusSteps ==
    {<<"waiting", "in_game", "start_lobby">>,
     <<"in_game", "completed", "complete_lobby">>,
     <<"waiting", "cancelled", "cancel_lobby">>,
     <<"in_game", "cancelled", "cancel_lobby">>}

C1_StatusTransitions ==
    [][\A l \in Lobbies :
          lobbies_container'[l].status # Lobby(l).status =>
              <<Lobby(l).status, lobbies_container'[l].status, last'.op>>
                  \in AllowedStatusSteps]_vars

\* a lobby that was started and then completed, and has since refused a cancel
C1_Witness ==
    \E l \in Lobbies :
        /\ Lobby(l).status = "completed"
        /\ Lobby(l).started_at # NoTime
        /\ last = [op |-> "cancel_lobby", ret |-> "False"]

\* C2: 0 <= current_players <= max_players in every state; while nobody has
\* left, current_players is 1 + the number of joins that returned True, and on
\* the waiting lobby a join that passes the password gate returns True exactly
\* while fewer than max_players - 1 joins have returned True.
PassesGate(l, p) == ~Truthy(Lobby(l).password) \/ Lobby(l).password = p

C2_Capacity ==
    \A l \in Lobbies :
        /\ 0 <= Lobby(l).current_players
        /\ Lobby(l).current_players <= Lobby(l).max_players
        /\ ~has_left[l] =>
              /\ Lobby(l).current_players = 1 + joins_ok[l]
              /\ Lobby(l).status = "waiting" =>
                    \A u \in Users, p \in JoinPasswords :
                        PassesGate(l, p) =>
                            (join_lobby(lobbies_container, l, u, p).ret = "True"
                                <=> joins_ok[l] < Lobby(l).max_players - 1)

\* max_players - 1 >= 1 joins were let in, and the next join was refused
C2_Witness ==
    \E l \in Lobbies :
        /\ ~has_left[l]
        /\ Lobby(l).status = "waiting"
        /\ Lobby(l).max_players >= 2
        /\ ~Truthy(Lobby(l).password)
        /\ joins_ok[l] = Lobby(l).max_players - 1
        /\ last = [op |-> "join_lobby", ret |-> "False"]

\* C3: start_lobby returns False and writes nothing when the status is not
\* waiting, complete_lobby when it is not in_game, and both when the caller is
\* not the creator or no lobby has the id.
Refused(r) == r.ret = "False" /\ ~r.wrote /\ r.c = lobbies_container

C3_StateGuard ==
    \A l \in AnyId, u \in Users :
        /\ (l \notin Lobbies \/ Lobby(l).creator_id # u \/ Lobby(l).status # "waiting")
              => Refused(start_lobby(lobbies_container, l, u, now))
        /\ (l \notin Lobbies \/ Lobby(l).creator_id # u \/ Lobby(l).status # "in_game")
              => Refused(complete_lobby(lobbies_container, l, u, now))

\* C3 on every id that is not an invite's: there the calls are refused as stated.
C3_GuardOnOtherIds ==
    \A l \in AnyId \ Invites, u \in Users :
        /\ (l \notin Lobbies \/ Lobby(l).creator_id # u \/ Lobby(l).status # "waiting")
              => Refused(start_lobby(lobbies_container, l, u, now))
        /\ (l \notin Lobbies \/ Lobby(l).creator_id # u \/ Lobby(l).status # "in_game")
              => Refused(complete_lobby(lobbies_container, l, u, now))

\* C4 as written, "password is set" read as `password is not None`: on a
\* waiting, non-full lobby with a password, join_lobby returns False and changes
\* nothing unless the supplied password equals it, and then returns True and
\* adds 1 to current_players.
GateHolds(l) ==
    \A u \in Users, p \in JoinPasswords :
        LET r == join_lobby(lobbies_container, l, u, p)
        IN  IF p = Lobby(l).password
            THEN /\ r.ret = "True"
                 /\ r.c[l].current_players = Lobby(l).current_players + 1
            ELSE /\ r.ret = "False"
                 /\ r.c = lobbies_container

Joinable(l) ==
    /\ Lobby(l).status = "waiting"
    /\ Lobby(l).current_players < Lobby(l).max_players

C4_AnyPassword ==
    \A l \in Lobbies : (Joinable(l) /\ Lobby(l).password # None) => GateHolds(l)

\* C4 amended: the same for a lobby whose password is a non-empty string.
C4_PasswordGate ==
    \A l \in Lobbies : (Joinable(l) /\ Truthy(Lobby(l).password)) => GateHolds(l)

\* a join on a joinable password lobby has just been refused
C4_Witness ==
    \E l \in Lobbies :
        /\ Joinable(l)
        /\ Truthy(Lobby(l).password)
        /\ last = [op |-> "join_lobby", ret |-> "False"]

\* C5: on a waiting, non-full lobby, accepting an unexpired invite issued by the
\* creator returns True, adds exactly 1 to current_players and removes the
\* invite from the invitee's pending list.
C5_AcceptInvite ==
    \A i \in Invites :
        LET inv == lobbies_container[i]
            l   == inv.lobby_id
            r   == accept_lobby_invite(lobbies_container, i, inv.invitee_id, now)
        IN  (/\ Joinable(l)
             /\ inv.inviter_id = Lobby(l).creator_id
             /\ ~(inv.expires_at < now))
            => /\ r.ret = "True"
               /\ r.c[l].current_players = Lobby(l).current_players + 1
               /\ i \notin get_lobby_invites(r.c, inv.invitee_id, now)

\* C5 on the lobbies join_lobby lets in without a password: there it holds.
C5_AcceptInviteOpenLobby ==
    \A i \in Invites :
        LET inv == lobbies_container[i]
            l   == inv.lobby_id
            r   == accept_lobby_invite(lobbies_container, i, inv.invitee_id, now)
        IN  (/\ Joinable(l)
             /\ ~Truthy(Lobby(l).password)
             /\ inv.inviter_id = Lobby(l).creator_id
             /\ ~(inv.expires_at < now))
            => /\ r.ret = "True"
               /\ r.c[l].current_players = Lobby(l).current_players + 1
               /\ i \notin get_lobby_invites(r.c, inv.invitee_id, now)

\* C6 as written: whenever the caller is the creator of a waiting lobby,
\* start_lobby returns True and sets status = in_game and started_at.
Started(l) ==
    LET r == start_lobby(lobbies_container, l, Lobby(l).creator_id, now)
    IN  /\ r.ret = "True"
        /\ r.c[l].status = "in_game"
        /\ r.c[l].started_at = now
        /\ r.c = [lobbies_container EXCEPT ![l] =
                     [@ EXCEPT !.status = "in_game", !.started_at = now]]

C6_AnyWaiting ==
    \A l \in Lobbies : Lobby(l).status = "waiting" => Started(l)

\* C6 amended: the same provided current_players >= 1.
C6_StartLobby ==
    \A l \in Lobbies :
        (Lobby(l).status = "waiting" /\ Lobby(l).current_players >= 1) => Started(l)

\* a lobby somebody has left was started by its creator
C6_Witness ==
    \E l \in Lobbies :
        /\ has_left[l]
        /\ Lobby(l).status = "in_game"
        /\ Lobby(l).started_at = now
        /\ last = [op |-> "start_lobby", ret |-> "True"]

\* rating rows of one user for one dungeon
RowsOf(rs, d, u) == {i \in Live(rs) : rs[i].dungeon_id = d /\ rs[i].user_id = u}

\* C7: when a user rates a dungeon twice in a row, one rating row exists for the
\* pair afterwards; the second call leaves the dungeon's total_ratings as it
\* was, and when nobody else has rated, average_rating is the second value and
\* total_ratings is 1.
C7_RatingIdempotent ==
    [][(/\ last.op = "rate_dungeon" /\ last.ret = "ok"
        /\ last'.op = "rate_dungeon" /\ last'.ret = "ok"
        /\ last'.dungeon = last.dungeon /\ last'.user = last.user)
       => LET d == last'.dungeon
              u == last'.user
          IN  /\ Cardinality(RowsOf(ratings_container', d, u)) = 1
              /\ d \in Live(dungeons_container) =>
                    /\ dungeons_container'[d].total_ratings
                          = dungeons_container[d].total_ratings
                    /\ RatingsOf(ratings_container', d) = RowsOf(ratings_container', d, u)
                          => /\ dungeons_container'[d].average_rating = 100 * last'.rating
                             /\ dungeons_container'[d].total_ratings = 1]_vars

\* a user's second rating, 3, is the only one of a dungeon: 3.0 over 1 rating
C7_Witness ==
    /\ last.op = "rate_dungeon" /\ last.ret = "ok"
    /\ last.existing /\ last.rating = 3
    /\ last.dungeon \in Live(dungeons_container)
    /\ Cardinality(RatingsOf(ratings_container, last.dungeon)) = 1
    /\ dungeons_container[last.dungeon].average_rating = 300
    /\ dungeons_container[last.dungeon].total_ratings = 1

\* C8: after a rate_dungeon call that returned, on an existing dungeon,
\* total_ratings is the number of rating rows of the dungeon and average_rating
\* is their mean rounded to 2 decimals (no hundredth is nearer to the mean).
Abs(x) == IF x < 0 THEN 0 - x ELSE x

C8_Aggregates ==
    (last.op = "rate_dungeon" /\ last.ret = "ok"
        /\ last.dungeon \in Live(dungeons_container))
    => LET d    == last.dungeon
           rows == RatingsOf(ratings_container, d)
           n    == Cardinality(rows)
       IN  /\ dungeons_container[d].total_ratings = n
           /\ 2 * Abs(n * dungeons_container[d].average_rating
                      - 100 * SumRatings(ratings_container, rows)) <= n

\* three users have rated and the mean is no whole number of hundredths: 5/3
C8_Witness ==
    /\ last.op = "rate_dungeon" /\ last.ret = "ok"
    /\ last.dungeon \in Live(dungeons_container)
    /\ dungeons_container[last.dungeon].total_ratings = 3
    /\ dungeons_container[last.dungeon].average_rating = 167

\* C9: a rating below 1 or above 5 raises ValueError before the store is
\* touched, so no rating row and no dungeon changes; 1 to 5 are accepted.
C9_RatingRange ==
    [][last'.op = "rate_dungeon" =>
          IF last'.rating < 1 \/ last'.rating > 5
          THEN /\ last'.ret = "ValueError"
               /\ ~last'.accessed
               /\ UNCHANGED <<ratings_container, dungeons_container>>
          ELSE last'.ret = "ok"]_vars

\* a 6 was refused on a dungeon the same user has rated 5
C9_Witness ==
    /\ last.op = "rate_dungeon" /\ last.ret = "ValueError" /\ last.rating = 6
    /\ last.dungeon \in Live(dungeons_container)
    /\ dungeons_container[last.dungeon].average_rating = 500
    /\ \E i \in Live(ratings_container) :
          /\ ratings_container[i].rating = 5
          /\ ratings_container[i].dungeon_id = last.dungeon
          /\ ratings_container[i].user_id = last.user

\* the live friendship rows between a and b, in either direction
RowsBetween(c, a, b) ==
    {i \in Live(c) : \/ c[i].requester_id = a /\ c[i].addressee_id = b
                     \/ c[i].requester_id = b /\ c[i].addressee_id = a}

\* C10: at most one friendship row exists per unordered pair of users, and
\* send_friend_request(a, b) raises ValueError and inserts nothing whenever a
\* row for {a, b} exists in either direction, whatever its status.
C10_NoDuplicate ==
    \A a \in FriendUsers, b \in FriendUsers :
        /\ Cardinality(RowsBetween(friendships_container, a, b)) <= 1
        /\ RowsBetween(friendships_container, a, b) # {} =>
              LET r == send_friend_request(friendships_container, a, b)
              IN  r.ret = "ValueError" /\ r.c = friendships_container

\* a request was refused because the addressee's rejected request stands
C10_Witness ==
    /\ last.op = "send_friend_request" /\ last.ret = "ValueError"
    /\ last.a # last.b
    /\ \E i \in Live(friendships_container) :
          /\ friendships_container[i].requester_id = last.b
          /\ friendships_container[i].addressee_id = last.a
          /\ friendships_container[i].status = "rejected"

\* the elements of a list
Elems(seq) == {seq[k] : k \in DOMAIN seq}

\* C11: from every reachable store, when send_friend_request(a, b) creates
\* the request and accept_friend_request(b, a) follows, the accept returns
\* True, are_friends(a, b) and are_friends(b, a) are both True, get_friends(a)
\* contains b and get_friends(b) contains a.
C11_Handshake ==
    \A a \in FriendUsers, b \in FriendUsers :
        LET s == send_friend_request(friendships_container, a, b)
            r == accept_friend_request(s.c, b, a)
        IN  s.ret = "created" =>
              /\ r.ret = "True"
              /\ are_friends(r.c, a, b) /\ are_friends(r.c, b, a)
              /\ b \in Elems(get_friends(r.c, a))
              /\ a \in Elems(get_friends(r.c, b))

\* the addressee has just accepted the request the other user sent, and
\* both read each other as friends
C11_Witness ==
    /\ last.op = "accept_friend_request" /\ last.ret = "True"
    /\ \E i \in Live(friendships_container) :
          /\ friendships_container[i].requester_id = last.b
          /\ friendships_container[i].addressee_id = last.a
          /\ friendships_container[i].status = "accepted"
    /\ are_friends(friendships_container, last.a, last.b)
    /\ last.b \in Elems(get_friends(friendships_container, last.a))
    /\ last.a \in Elems(get_friends(friendships_container, last.b))

\* a pending row from requester to addressee exists
PendingFrom(c, requester_id, addressee_id) ==
    \E i \in Live(c) : /\ c[i].requester_id = requester_id
                       /\ c[i].addressee_id = addressee_id
                       /\ c[i].status = "pending"

\* both answers to a request, for one pair of arguments
Answers(c, addressee_id, requester_id) ==
    {accept_friend_request(c, addressee_id, requester_id),
     reject_friend_request(c, addressee_id, requester_id)}

\* C12: accept_friend_request(addressee, requester) and reject_friend_request
\* change a row only if that row has requester_id = requester, addressee_id =
\* addressee and status pending; in every other case (no row, a row in the
\* opposite direction, a status that is not pending) they return False and
\* change nothing.
C12_AnswerGuard ==
    \A a \in FriendUsers, b \in FriendUsers :
        \A r \in Answers(friendships_container, a, b) :
            IF PendingFrom(friendships_container, b, a)
            THEN TRUE
            ELSE r.ret = "False" /\ r.c = friendships_container

\* C12, the part that holds: without a pending row from requester to
\* addressee neither call changes the store, whatever it answers.
C12_NothingWritten ==
    \A a \in FriendUsers, b \in FriendUsers :
        \A r \in Answers(friendships_container, a, b) :
            ~PendingFrom(friendships_container, b, a) => r.c = friendships_container

\* C13: once the row between a and b has had status rejected, no sequence of
\* FriendshipService operations makes a later send_friend_request between a
\* and b succeed.
C13_NeverAgain ==
    (last.op = "send_friend_request" /\ last.ret = "created")
        => {last.a, last.b} \notin rejected_pairs

\* C13, amended: while the row between two users has status rejected, a
\* send_friend_request between them raises ValueError in either direction and
\* inserts nothing, and one call leaves that row in place, with the same
\* users, rejected or (after block_user) blocked; only an unblock_user of the
\* blocked row removes it.
C13_RejectedStands ==
    [][\A i \in Live(friendships_container) :
          friendships_container[i].status = "rejected" =>
            LET a == friendships_container[i].requester_id
                b == friendships_container[i].addressee_id
            IN  /\ \A r \in {send_friend_request(friendships_container, a, b),
                             send_friend_request(friendships_container, b, a)} :
                      r.ret = "ValueError" /\ r.c = friendships_container
                /\ i \in Live(friendships_container')
                /\ friendships_container'[i].requester_id = a
                /\ friendships_container'[i].addressee_id = b
                /\ friendships_container'[i].status \in {"rejected", "blocked"}
                /\ friendships_container'[i].status = "blocked"
                      => last'.op = "block_user"]_vars

\* the requester of a rejected request has just blocked the other user: the
\* rejected row is now blocked, and an unblock_user would delete it
C13_Witness ==
    /\ last.op = "block_user" /\ last.ret = "updated"
    /\ {last.a, last.b} \in rejected_pairs
    /\ is_blocked(friendships_container, last.a, last.b)
    /\ unblock_user(friendships_container, last.a, last.b).ret = "True"

\* the live rows requested by a and addressed to b
RowsFrom(c, a, b) ==
    {i \in Live(c) : c[i].requester_id = a /\ c[i].addressee_id = b}

\* what C14 says of block_user(blocker, blocked) called on the store c
BlockedAsClaimed(c, blocker_id, blocked_id) ==
    LET r == block_user(c, blocker_id, blocked_id)
        existing == RowsBetween(c, blocker_id, blocked_id)
    IN  /\ r.ret # "ValueError"
        /\ IF existing # {}
           THEN /\ Len(r.c) = Len(c)
                /\ \A i \in existing :
                      /\ i \in Live(r.c)
                      /\ r.c[i].status = "blocked"
                      /\ r.c[i].requester_id = c[i].requester_id
                      /\ r.c[i].addressee_id = c[i].addressee_id
           ELSE /\ Len(r.c) = Len(c) + 1
                /\ r.c[Len(r.c)].requester_id = blocker_id
                /\ r.c[Len(r.c)].addressee_id = blocked_id
                /\ r.c[Len(r.c)].status = "blocked"
        /\ is_blocked(r.c, blocker_id, blocked_id)

\* C14: block_user(blocker, blocked) with blocker # blocked never raises: a
\* row existing for the pair in either direction gets status blocked and
\* keeps its requester_id and addressee_id, otherwise a new row (requester_id
\* = blocker, addressee_id = blocked, status blocked) is inserted; afterwards
\* is_blocked(blocker, blocked) is True.
C14_BlockNeverRaises ==
    \A a \in FriendUsers, b \in FriendUsers :
        a # b => BlockedAsClaimed(friendships_container, a, b)

\* C14, the part that holds: block_user does all of this unless the pair's
\* row was requested by the user being blocked.
C14_BlockOwnRow ==
    \A a \in FriendUsers, b \in FriendUsers :
        (a # b /\ RowsFrom(friendships_container, b, a) = {})
            => BlockedAsClaimed(friendships_container, a, b)

\* C15: remove_friend(u, f) returns True and deletes the friendship row
\* whenever an accepted friendship exists between u and f, whichever of the
\* two sent the original request; afterwards are_friends(u, f) and
\* are_friends(f, u) are False.
C15_RemoveEitherSide ==
    \A u \in FriendUsers, f \in FriendUsers :
        are_friends(friendships_container, u, f) =>
            LET r == remove_friend(friendships_container, u, f)
            IN  /\ r.ret = "True"
                /\ RowsBetween(r.c, u, f) = {}
                /\ ~are_friends(r.c, u, f) /\ ~are_friends(r.c, f, u)

\* C15, the part that holds: the user who sent the original request removes
\* the friendship.
C15_RemoveByRequester ==
    \A u \in FriendUsers, f \in FriendUsers :
        (are_friends(friendships_container, u, f)
         /\ RowsFrom(friendships_container, u, f) # {}) =>
            LET r == remove_friend(friendships_container, u, f)
            IN  /\ r.ret = "True"
                /\ RowsBetween(r.c, u, f) = {}
                /\ ~are_friends(r.c, u, f) /\ ~are_friends(r.c, f, u)

Guilds == GuildIds(guilds_container)

\* C16: in any sequence of create_guild, add_member_to_guild and
\* remove_member_from_guild calls executed one at a time, a guild's
\* current_members equals the number of membership rows carrying its
\* guild_id; it is 1 right after create_guild, which inserts the leader's row.
C16_MemberCount ==
    /\ \A g \in Guilds :
          guilds_container[g].current_members
              = Cardinality(get_guild_members(guilds_container, g))
    /\ last.op = "create_guild" =>
          /\ guilds_container[last.guild].current_members = 1
          /\ \E i \in get_guild_members(guilds_container, last.guild) :
                guilds_container[i].user_id = guilds_container[last.guild].leader_id

\* a member was removed from a guild and a user added afterwards: the
\* counter and the rows agree on two members, one row being deleted
C16_Witness ==
    /\ last.op = "add_member_to_guild" /\ last.ret = "True"
    /\ guilds_container[last.guild].current_members = 2
    /\ Cardinality(get_guild_members(guilds_container, last.guild)) = 2
    /\ \E i \in DOMAIN guilds_container : guilds_container[i] = Deleted

\* the three cases in which add_member_to_guild refuses
AddRefused(c, g, u) ==
    \/ get_guild_by_id(c, g) = {}
    \/ c[g].current_members >= c[g].max_members
    \/ MemberQuery(c, g, u) # {}

\* what C17 says of one add_member_to_guild(g, u) called on the store c
AddAsClaimed(c, g, u) ==
    LET r == add_member_to_guild(c, g, u)
    IN  IF AddRefused(c, g, u)
        THEN r.ret = "False" /\ r.c = c
        ELSE /\ r.ret = "True"
             /\ Len(r.c) = Len(c) + 1
             /\ IsMemberDoc(r.c[Len(r.c)])
             /\ r.c[Len(r.c)].guild_id = g /\ r.c[Len(r.c)].user_id = u
             /\ r.c[g] = [c[g] EXCEPT !.current_members = @ + 1]
             /\ \A i \in DOMAIN c \ {g} : r.c[i] = c[i]

\* no (guild_id, user_id) pair has two membership rows
NoDoubleMembership ==
    \A g \in Guilds, u \in GuildUsers :
        Cardinality(MemberQuery(guilds_container, g, u)) <= 1

C18_LeaderOnly ==
    \A g \in Guilds, by \in GuildUsers :
        by # guilds_container[g].leader_id =>
            /\ \A u \in GuildUsers :
                  LET r == remove_member_from_guild(guilds_container, g, u, by)
                  IN  r.ret = "False" /\ r.c = guilds_container
            /\ \A updates \in GuildUpdates :
                  LET r == update_guild(guilds_container, g, by, updates)
                  IN  r.ret = None /\ r.c = guilds_container

\* a member of a two-member guild who is not its leader asked to remove the
\* leader and was refused; a rename by that member would be refused as well
C18_Witness ==
    /\ last.op = "remove_member_from_guild" /\ last.ret = "False"
    /\ last.guild \in Guilds
    /\ last.by # guilds_container[last.guild].leader_id
    /\ last.user = guilds_container[last.guild].leader_id
    /\ MemberQuery(guilds_container, last.guild, last.by) # {}
    /\ MemberQuery(guilds_container, last.guild, last.user) # {}
    /\ guilds_container[last.guild].current_members = 2
    /\ update_guild(guilds_container, last.guild, last.by, [name |-> "renamed"]).ret = None

Accounts == Live(users_container)

\* C19: in any sequence of create_user calls executed one at a time, no two
\* stored accounts share a username and no two share an email: a create_user
\* whose username or email is already stored raises ValueError and inserts
\* nothing.
C19_UniqueAccounts ==
    /\ \A i \in Accounts, j \in Accounts :
          i # j => /\ users_container[i].username # users_container[j].username
                   /\ users_container[i].email # users_container[j].email
    /\ \A username \in Usernames, email \in Emails, password \in UserPasswords :
          (\E i \in Accounts : \/ users_container[i].username = username
                               \/ users_container[i].email = email)
            => LET r == create_user(users_container, username, email, password)
               IN  r.ret = "ValueError" /\ r.c = users_container

\* a registration under a new username was refused for its email, which
\* another account holds
C19_Witness ==
    /\ last.op = "create_user" /\ last.ret = "ValueError"
    /\ \A i \in Accounts : users_container[i].username # last.username
    /\ \E i \in Accounts : users_container[i].email = last.email

\* C20: after every successful login (POST /auth/login answered 200 for
\* valid credentials) the stored account's last_login has been set to the
\* login time.
C20_LastLogin ==
    (last.op = "login" /\ last.status = 200) =>
        \E i \in Accounts : /\ users_container[i].username = last.username
                            /\ LastLogin(users_container[i]) = now

\* C20, what the code does: last_login is written for the account whose
\* username is the placeholder partition key, and for no other account.
C20_OnlyPlaceholderAccount ==
    /\ (last.op = "login" /\ last.status = 200
        /\ last.username = PartitionKeyPlaceholder) =>
           \E i \in Accounts : /\ users_container[i].username = last.username
                               /\ LastLogin(users_container[i]) = now
    /\ \A i \in Accounts :
          users_container[i].username # PartitionKeyPlaceholder
              => LastLogin(users_container[i]) = NoTime

\* the headers that resolve to no account in this state
BadHeaders == {h \in Headers : get_current_user(users_container, h) = {}}
Answers401(response, c) == response.status = 401 /\ response.c = c

DungeonRoutesRefuse(h) ==
    LET u == users_container
        ds == dungeons_container
        rs == ratings_container
    IN  /\ Answers401(_create_dungeon_impl(u, ds, h), ds)
        /\ \A d \in DOMAIN ds \cup {NoSuchId} :
             /\ \A b \in DungeonBodies : Answers401(_update_dungeon_impl(u, ds, h, d, b), ds)
             /\ Answers401(_delete_dungeon_impl(u, ds, h, d), ds)
             /\ \A r \in MinRating..MaxRating :
                  Answers401(_rate_dungeon_impl(u, ds, rs, h, d, r), <<ds, rs>>)
             /\ Answers401(_play_dungeon_impl(u, ds, h, d), ds)

LobbyRoutesRefuse(h) ==
    LET u == users_container
        c == lobbies_container
    IN  /\ Answers401(_create_lobby_impl(u, c, h, MaxPlayersCap, None), c)
        /\ \A l \in AnyId :
             /\ Answers401(_join_lobby_impl(u, c, h, l, None), c)
             /\ Answers401(_leave_lobby_impl(u, c, h, l), c)
             /\ Answers401(_start_lobby_impl(u, c, h, l, now), c)
             /\ Answers401(_complete_lobby_impl(u, c, h, l, now), c)
             /\ Answers401(_cancel_lobby_impl(u, c, h, l), c)
             /\ \A i \in AccountIds :
                  Answers401(_invite_to_lobby_impl(u, c, h, l, [user_id |-> i], now), c)
             /\ Answers401(_accept_lobby_invite_impl(u, c, h, l, now), c)
             /\ Answers401(_decline_lobby_invite_impl(u, c, h, l), c)

GuildRoutesRefuse(h) ==
    LET u == users_container
        c == guilds_container
    IN  /\ Answers401(_create_guild_impl(u, c, h, MaxMembersCap), c)
        /\ \A g \in AnyGuildId :
             /\ \A i \in AccountIds :
                  /\ Answers401(_add_guild_member_impl(u, c, h, g, [user_id |-> i]), c)
                  /\ Answers401(_remove_guild_member_impl(u, c, h, g, i), c)
             /\ \A b \in GuildBodies : Answers401(_update_guild_impl(u, c, h, g, b), c)

FriendRoutesRefuse(h) ==
    LET u == users_container
        c == friendships_container
    IN  \A i \in AccountIds :
          /\ Answers401(_send_friend_request_impl(u, c, h, i), c)
          /\ Answers401(_accept_friend_request_impl(u, c, h, i), c)
          /\ Answers401(_reject_friend_request_impl(u, c, h, i), c)
          /\ Answers401(_remove_friend_impl(u, c, h, i), c)
          /\ Answers401(_block_user_impl(u, c, h, i), c)
          /\ Answers401(_unblock_user_impl(u, c, h, i), c)

OtherRoutesRefuse(h) ==
    LET u == users_container
        c == leaderboard_container
    IN  /\ Answers401(_update_player_score_impl(u, c, h, "u1", "alice", 100), c)
        /\ Answers401(_update_dungeon_score_impl(u, c, h, "d1", "crypt", 100), c)
        /\ Answers401(_update_profile_impl(u, h, [display_name |-> "Alice"]), u)

\* C21: a request whose Authorization header is missing, is not a Bearer
\* header, or carries a token that resolves to no account is answered 401 by
\* every mutating route, and the store is as it was
C21_Unauthorized ==
    \A h \in BadHeaders :
        /\ DungeonRoutesRefuse(h)
        /\ LobbyRoutesRefuse(h)
        /\ GuildRoutesRefuse(h)
        /\ FriendRoutesRefuse(h)
        /\ OtherRoutesRefuse(h)

\* every mutating route but POST /dungeons/{id}/play refuses such a request
C21_AllButPlay ==
    \A h \in BadHeaders :
        /\ LobbyRoutesRefuse(h)
        /\ GuildRoutesRefuse(h)
        /\ FriendRoutesRefuse(h)
        /\ OtherRoutesRefuse(h)
        /\ LET u == users_container
               ds == dungeons_container
               rs == ratings_container
           IN  /\ Answers401(_create_dungeon_impl(u, ds, h), ds)
               /\ \A d \in DOMAIN ds \cup {NoSuchId} :
                    /\ \A b \in DungeonBodies :
                         Answers401(_update_dungeon_impl(u, ds, h, d, b), ds)
                    /\ Answers401(_delete_dungeon_impl(u, ds, h, d), ds)
                    /\ \A r \in MinRating..MaxRating :
                         Answers401(_rate_dungeon_impl(u, ds, rs, h, d, r), <<ds, rs>>)

\* the Authorization header of a registered account
HeaderOf(account) == Bearer(Token(users_container[account].username))
\* the response as the client sees it
Seen(response) == <<response.status, response.body>>
\* a refusal that reads like the refusal for a missing record, and writes nothing
Like(response, missing, c) == Seen(response) = Seen(missing) /\ response.c = c

LobbyRoutes(l, h) ==
    LET u == users_container
        c == lobbies_container
    IN  <<_start_lobby_impl(u, c, h, l, now), _complete_lobby_impl(u, c, h, l, now),
          _cancel_lobby_impl(u, c, h, l)>>

\* the wrong actor is answered as if the record were missing
C22_LobbyHidden(status) ==
    \A a \in Live(users_container), l \in LobbyIds(lobbies_container) :
        lobbies_container[l].creator_id # a =>
            \A k \in 1..3 :
                /\ LobbyRoutes(l, HeaderOf(a))[k].status = status
                /\ Like(LobbyRoutes(l, HeaderOf(a))[k],
                        LobbyRoutes(NoSuchId, HeaderOf(a))[k], lobbies_container)

C22_GuildRemoveHidden(status) ==
    LET u == users_container
        c == guilds_container
    IN  \A a \in Live(u), g \in GuildIds(c), m \in AccountIds :
            c[g].leader_id # a =>
                /\ _remove_guild_member_impl(u, c, HeaderOf(a), g, m).status = status
                /\ Like(_remove_guild_member_impl(u, c, HeaderOf(a), g, m),
                        _remove_guild_member_impl(u, c, HeaderOf(a), NoSuchId, m), c)

C22_GuildUpdateHidden ==
    LET u == users_container
        c == guilds_container
    IN  \A a \in Live(u), g \in GuildIds(c), b \in GuildBodies :
            c[g].leader_id # a =>
                /\ _update_guild_impl(u, c, HeaderOf(a), g, b).status = 404
                /\ Like(_update_guild_impl(u, c, HeaderOf(a), g, b),
                        _update_guild_impl(u, c, HeaderOf(a), NoSuchId, b), c)

C22_DungeonHidden ==
    LET u == users_container
        ds == dungeons_container
    IN  \A a \in Live(u), d \in Live(ds) :
            ds[d].creator_id # a =>
                /\ \A b \in DungeonBodies :
                     /\ _update_dungeon_impl(u, ds, HeaderOf(a), d, b).status = 404
                     /\ Like(_update_dungeon_impl(u, ds, HeaderOf(a), d, b),
                             _update_dungeon_impl(u, ds, HeaderOf(a), NoSuchId, b), ds)
                /\ _delete_dungeon_impl(u, ds, HeaderOf(a), d).status = 404
                /\ Like(_delete_dungeon_impl(u, ds, HeaderOf(a), d),
                        _delete_dungeon_impl(u, ds, HeaderOf(a), NoSuchId), ds)

\* C22 as stated: the wrong actor (a non-creator starting, completing or
\* cancelling a lobby, a non-leader removing a guild member or updating a
\* guild, a non-creator updating or deleting a dungeon) is answered 404, with
\* the status and body of the same request for a record that does not exist
C22_NotFound ==
    /\ C22_LobbyHidden(404)
    /\ C22_GuildRemoveHidden(404)
    /\ C22_GuildUpdateHidden
    /\ C22_DungeonHidden

\* C22 amended: the wrong actor is answered with the status and body of the
\* same request for a record that does not exist, and nothing is written; the
\* status is 404 for the update and delete of a dungeon and the update of a
\* guild, and 400 for the lobby routes and the removal of a guild member
C22_Indistinguishable ==
    /\ C22_LobbyHidden(400)
    /\ C22_GuildRemoveHidden(400)
    /\ C22_GuildUpdateHidden
    /\ C22_DungeonHidden

\* a creator's lobby, a leader's guild and a creator's dungeon are stored, and
\* the other account has just been refused the start of the lobby
C22_Witness ==
    /\ last.op = "start_lobby"
    /\ last.status = 400
    /\ last.caller \in Live(users_container)
    /\ last.target \in LobbyIds(lobbies_container)
    /\ lobbies_container[last.target].creator_id # last.caller
    /\ lobbies_container[last.target].status = "waiting"
    /\ \E g \in GuildIds(guilds_container) :
         guilds_container[g].leader_id # last.caller
    /\ \E d \in Live(dungeons_container) :
         dungeons_container[d].creator_id # last.caller

\* the player score rows, and the row of a user
PlayerRows == {i \in Live(leaderboard_container) : IsPlayerScore(leaderboard_container[i])}
ScoreRowsOf(user_id) == {i \in PlayerRows : leaderboard_container[i].user_id = user_id}
\* 1 + the number of player rows with a strictly greater total_score
RankAbove(score) ==
    1 + Cardinality({i \in PlayerRows : leaderboard_container[i].total_score > score})

\* the first half of C23: a player with a score row is ranked 1 + the number
\* of rows strictly above it
C23_Ranked ==
    \A u \in ScoreUsers :
        ScoreRowsOf(u) # {} =>
            get_player_rank(leaderboard_container, u) =
                {RankAbove(leaderboard_container[First(ScoreRowsOf(u))].total_score)}

\* C23: a player with a score row is ranked 1 + the number of player rows
\* with a strictly greater total_score; for a user with no score row
\* get_player_rank returns None and the rank route answers 404
C23_Rank ==
    /\ C23_Ranked
    /\ \A u \in ScoreUsers :
         ScoreRowsOf(u) = {} =>
             /\ get_player_rank(leaderboard_container, u) = {}
             /\ _get_player_rank_impl(leaderboard_container, u).status = 404

\* scores 300, 200, 100 are ranked 1, 2, 3
C23_ThreeScores ==
    /\ \A s \in Scores : \E i \in PlayerRows : leaderboard_container[i].total_score = s
    /\ Cardinality(PlayerRows) = 3
    /\ last.op = "get_player_rank"

\* the account behind a header, as a set
AccountOf(h) == get_current_user(users_container, h)
Players == {h \in Headers : /\ AccountOf(h) # {}
                            /\ RoleOf(users_container[First(AccountOf(h))]) = "player"}

\* C25: the two score routes make or change a score row only for a caller
\* whose role is admin; a caller whose role is player changes nothing
C25_AdminOnly ==
    \A h \in Players :
        LET u == users_container
            c == leaderboard_container
        IN  /\ \A id \in ScoreUsers, s \in Scores :
                 _update_player_score_impl(u, c, h, id, "name", s).c = c
            /\ \A d \in DungeonNames, s \in Scores :
                 _update_dungeon_score_impl(u, c, h, d, "crypt", s).c = c

\* the joins that have returned True
JoinedTrue ==
    {p \in DOMAIN procs : /\ Returned(p)
                          /\ procs[p].op = "join_lobby"
                          /\ procs[p].ret = "True"}

\* C24: concurrent joins lose updates, they never invent players: the counter
\* stays within max_players and never exceeds the creator plus the joins
\* that returned True, while the joins that returned True are not bounded by
\* max_players - 1
C24_LostUpdate ==
    \A l \in LobbyIds(lobbies_container) :
        /\ lobbies_container[l].current_players <= lobbies_container[l].max_players
        /\ lobbies_container[l].current_players <= 1 + Cardinality(JoinedTrue)

\* two joins of one waiting lobby have both returned True, current_players
\* has risen by 1 only, and the joins that succeeded exceed max_players - 1
C24_Witness ==
    \E l \in LobbyIds(lobbies_container) :
        /\ \A p \in DOMAIN procs : Returned(p) /\ procs[p].op = "join_lobby"
        /\ Cardinality(JoinedTrue) = 2
        /\ \A p, q \in JoinedTrue :
             /\ procs[p].user_id # lobbies_container[l].creator_id
             /\ p # q => procs[p].user_id # procs[q].user_id
        /\ lobbies_container[l].status = "waiting"
        /\ lobbies_container[l].current_players = 1 + 1
        /\ Cardinality(JoinedTrue) > lobbies_container[l].max_players - 1

StatusForward ==
    \A l \in LobbyIds(lobbies_container) :
        LET before == lobbies_container[l].status
            after == lobbies_container'[l].status
        IN  /\ before # "waiting" => after # "waiting"
            /\ before \in {"completed", "cancelled"} => after = before

\* C26: under any interleaving of join, leave, start, complete and cancel
\* requests on one lobby the stored status never moves backwards: a lobby
\* that is in_game, completed or cancelled is never waiting again, and one
\* that is completed or cancelled keeps its status
C26_StatusForward == [][StatusForward]_vars

\* C27: accept_lobby_invite is all-or-nothing: whenever it returns False (the
\* invite is missing, the caller is not its invitee, it has expired, or
\* join_lobby refuses because the lobby is absent, full, not waiting or
\* protected by a password) neither the invite nor the lobby has changed
C27_AllOrNothing ==
    \A i \in AnyId, u \in Users :
        LET r == accept_lobby_invite(lobbies_container, i, u, now)
        IN  r.ret = "False" => r.c = lobbies_container

\* C27 where the refusal comes before the join: nothing has changed
C27_RefusedBeforeJoin ==
    \A i \in AnyId, u \in Users :
        LET r == accept_lobby_invite(lobbies_container, i, u, now)
        IN  (/\ r.ret = "False"
             /\ \/ i \notin Invites
                \/ lobbies_container[i].invitee_id # u
                \/ lobbies_container[i].expires_at < now)
            => r.c = lobbies_container

\* the accept or decline that has just returned True
Answered ==
    /\ last.op \in {"accept_lobby_invite", "decline_lobby_invite"}
    /\ last.ret = "True"

\* C28: an invite is used at most once: after accept_lobby_invite or
\* decline_lobby_invite has returned True for it, an accept or decline of the
\* same invite returns False and leaves is_accepted and the lobby's
\* current_players as they are
C28_UsedOnce ==
    Answered =>
        \A i \in Invites, u \in Users :
            LET a == accept_lobby_invite(lobbies_container, i, u, now)
                d == decline_lobby_invite(lobbies_container, i, u)
            IN  /\ a.ret = "False" /\ a.c = lobbies_container
                /\ d.ret = "False" /\ d.c = lobbies_container

\* every rate_dungeon call made has returned, and there were at least two
AllReturned ==
    /\ Cardinality(DOMAIN procs) >= 2
    /\ \A p \in DOMAIN procs : Returned(p)

\* C30: after any interleaving of rate_dungeon calls by different users on
\* one dungeon, once all of them have returned, total_ratings is the number
\* of rating rows of the dungeon and average_rating their mean rounded to 2
\* decimals
C30_AggregateSettles ==
    AllReturned =>
        \A d \in Live(dungeons_container) :
            LET ratings == RatingsOf(ratings_container, d)
            IN  /\ dungeons_container[d].total_ratings = Cardinality(ratings)
                /\ dungeons_container[d].average_rating =
                       Round2(SumRatings(ratings_container, ratings),
                              Cardinality(ratings))

Kept(before, after, fields) == \A f \in fields : after[f] = before[f]

\* C29: an update by the owner, whatever the body, leaves the owner field and
\* the fields the service maintains as they were: creator_id, average_rating,
\* total_ratings and play_count of a dungeon, leader_id, current_members and
\* total_score of a guild
C29_Frame ==
    \A a \in Live(users_container) :
        /\ \A d \in Live(dungeons_container), b \in DungeonBodies :
             dungeons_container[d].creator_id = a =>
                 Kept(dungeons_container[d],
                      _update_dungeon_impl(users_container, dungeons_container,
                                           HeaderOf(a), d, b).c[d],
                      {"creator_id", "average_rating", "total_ratings", "play_count"})
        /\ \A g \in GuildIds(guilds_container), b \in GuildBodies :
             guilds_container[g].leader_id = a =>
                 Kept(guilds_container[g],
                      _update_guild_impl(users_container, guilds_container,
                                         HeaderOf(a), g, b).c[g],
                      {"leader_id", "current_members", "total_score"})

====
